---- MODULE Spec2Model ----
(***************************************************************************)
(* Model of the claude-terminal tool-dispatch server.                      *)
(*                                                                         *)
(*   Spec       the Tool Registry and the BaseTool dispatch wrapper        *)
(*              (tool-registry.js, base-tool.js, server.js)                *)
(*   SpecGuard  the path guard of the file and directory handlers          *)
(*              (file-utils.js validateAndNormalizePath and its callers)   *)
(*   SpecExec   execute_command / execute_script invocations, the spawn    *)
(*              primitive and the script's temporary file                  *)
(*              (execute-command.js, execute-script.js, command-utils.js)  *)
(***************************************************************************)
EXTENDS Integers, Sequences, FiniteSets, TLC

VARIABLES
    \* ---- Tool Registry (ToolRegistry.tools, a JS Map: insertion ordered)
    tools,          \* sequence of entries [key, value]; value is a tool object
    clock,          \* number of register() calls that stored a tool so far
    firstRegistered,\* per name: clock value when the key entered the Map (0: absent)
    resets,         \* number of reset() calls so far
    lastOp,         \* the registry call that ran last, with its argument and result
    \* ---- Dispatch (ToolRegistry.execute -> BaseTool.execute -> run)
    call,           \* the last CallTool request: what ran, and how it ended
    \* ---- File and directory handlers (path guard)
    fileReq,        \* the file/directory request being answered, or NoFileReq
    \* ---- execute_command / execute_script
    inv,            \* per invocation slot: where run() stands, and what it did
    tmpDirs,        \* temporary directories that exist (mkdtempSync), by number
    scriptFiles,    \* temporary directories whose script file exists
    started,        \* invocations started so far
    \* ---- getExecOptions
    optReq,         \* the options last built: for which tool, from which arguments
    \* ---- directory listing summary
    listing,        \* the listing last summarised, or NoListing
    \* ---- filesystem handlers
    fs,             \* per path of Nodes: nothing, a directory, or a file and its data
    fsReq,          \* the file/directory request last handled, or NoFsReq
    \* ---- ConfigManager and the command gate
    cm,             \* defaults, config, and whether they are the same object
    cmdReq,         \* the command last checked or executed, or NoCmdReq
    \* ---- list_processes
    procReq,        \* the list_processes request last handled, or NoProcReq
    \* ---- argument validation of every handler
    valReq,         \* the request last validated, or NoValReq
    \* ---- kill_process
    killReq         \* the kill_process request last handled, or NoKillReq

regVars == <<tools, clock, firstRegistered, resets, lastOp, call>>

guardVars == <<fileReq>>

\* what the registry's and the dispatcher's actions leave alone
execVars == <<inv, tmpDirs, scriptFiles, started>>

\* the variables added after the first three parts of the model
laterVars == <<optReq, listing, fs, fsReq, cm, cmdReq, procReq, valReq, killReq>>

nonRegVars == <<fileReq, inv, tmpDirs, scriptFiles, started, laterVars>>

\* what the file and directory handlers leave alone
nonGuardVars ==
    <<tools, clock, firstRegistered, resets, lastOp, call,
      inv, tmpDirs, scriptFiles, started, laterVars>>

\* what the command and script handlers leave alone
nonExecVars ==
    <<tools, clock, firstRegistered, resets, lastOp, call, fileReq, laterVars>>

\* the registry, the path guard and the invocations together
firstVars ==
    <<tools, clock, firstRegistered, resets, lastOp, call, fileReq,
      inv, tmpDirs, scriptFiles, started>>

\* what building the spawn options leaves alone
nonOptVars == <<firstVars, listing, fs, fsReq, cm, cmdReq, procReq, valReq, killReq>>

\* what summarising a listing leaves alone
nonListVars == <<firstVars, optReq, fs, fsReq, cm, cmdReq, procReq, valReq, killReq>>

\* what the filesystem handlers leave alone
nonFsVars == <<firstVars, optReq, listing, cm, cmdReq, procReq, valReq, killReq>>

\* what the configuration and the command gate leave alone
nonCfgVars == <<firstVars, optReq, listing, fs, fsReq, procReq, valReq, killReq>>

\* what list_processes leaves alone
nonProcVars == <<firstVars, optReq, listing, fs, fsReq, cm, cmdReq, valReq, killReq>>

\* what argument validation leaves alone
nonValVars == <<firstVars, optReq, listing, fs, fsReq, cm, cmdReq, procReq, killReq>>

\* what kill_process leaves alone
nonKillVars == <<firstVars, optReq, listing, fs, fsReq, cm, cmdReq, procReq, valReq>>

vars ==
    <<tools, clock, firstRegistered, resets, lastOp, call, fileReq,
      inv, tmpDirs, scriptFiles, started,
      optReq, listing, fs, fsReq, cm, cmdReq, procReq, valReq, killReq>>

-----------------------------------------------------------------------------
(* Bounds *)

\* tools a run may store through register() and addCustomTool()
MaxRegisterCalls == 2

\* reset() calls a run may make
MaxResets == 2

\* largest elapsed time (ms) the wrapper can measure
MaxElapsed == 1

\* longest path argument, in segments
MaxPathLen == 3

\* command and script invocations that can be in flight together
MaxInvocations == 2

\* command and script invocations a run starts in total
MaxStarts == 2

\* entries of a directory listing
MaxItems == 3

\* code units of a file_write content in the round trip
MaxContentLen == 2

\* the longest command string checked against the configuration
MaxCommandLen == 3

-----------------------------------------------------------------------------
(* JS values *)

\* values a caller can put in tool.execute
ExecuteValues == {"function", "undefined", "string"}

IsTruthy(v) == v \notin {"undefined", "null", "", "0", "false"}

IsCallable(v) == v = "function"

\* {...a, ...b}: the keys of both, b's value where both have the key
Spread(a, b) ==
    [k \in (DOMAIN a) \cup (DOMAIN b) |-> IF k \in DOMAIN b THEN b[k] ELSE a[k]]

NoKeys == [k \in {} |-> TRUE]

-----------------------------------------------------------------------------
(* Tool objects and run() outcomes *)

\* registerDefaultTools: the nine built-in tools, in the order they are registered
DefaultToolNames ==
    << "execute_command", "execute_script", "get_system_info",
       "list_processes", "kill_process",
       "file_read", "file_write", "file_operations", "directory_operations" >>

\* tool.name of the objects a caller hands to register()
RegisterNames == {"execute_command", "custom_a", ""}

\* names a caller of unregister()/execute() tries
LookupNames == {"execute_command", "custom_a", "custom_b"}

\* classes handed to addCustomTool(): subclasses of BaseTool
CustomToolClasses == {"custom_a", "custom_b"}

\* what tools.get() returns for a missing key (undefined)
NoTool == [name |-> "", execute |-> "undefined", inst |-> 0, builtin |-> FALSE]

NewTool(n, e, i, b) == [name |-> n, execute |-> e, inst |-> i, builtin |-> b]

NoError ==
    [class |-> "none", code |-> "none", message |-> "", stdout |-> "",
     stderr |-> "", signal |-> "none", killed |-> FALSE]

\* throw new McpError(ErrorCode.InvalidParams, ...) as the handlers raise it
McpInvalidParams(msg) ==
    [class |-> "McpError", code |-> "InvalidParams", message |-> msg,
     stdout |-> "", stderr |-> "", signal |-> "none", killed |-> FALSE]

McpMethodNotFound(msg) ==
    [class |-> "McpError", code |-> "MethodNotFound", message |-> msg,
     stdout |-> "", stderr |-> "", signal |-> "none", killed |-> FALSE]

McpInternalError(msg) ==
    [class |-> "McpError", code |-> "InternalError", message |-> msg,
     stdout |-> "", stderr |-> "", signal |-> "none", killed |-> FALSE]

PlainError(msg) ==
    [class |-> "Error", code |-> "none", message |-> msg,
     stdout |-> "", stderr |-> "", signal |-> "none", killed |-> FALSE]

\* calling a value that is not a function
NotAFunctionError ==
    [class |-> "TypeError", code |-> "none",
     message |-> "tool.execute is not a function",
     stdout |-> "", stderr |-> "", signal |-> "none", killed |-> FALSE]

\* the rejection of promisify(exec): error.code is the exit code (null when
\* killed), error.signal the terminating signal, error.killed set by exec's kill()
ExecError(msg, out, err, code, sig, killed) ==
    [class |-> "Error", code |-> code, message |-> msg,
     stdout |-> out, stderr |-> err, signal |-> sig, killed |-> killed]

\* result objects the built-in handlers return: none has a key named success
\* or execution_time_ms
BuiltinResults == { [stdout |-> "hi", exit_code |-> "0"] }

\* result objects a custom tool's run() can return
CustomResults ==
    BuiltinResults \cup
    { [success |-> FALSE], [execution_time_ms |-> -1] }

ResultsOf(tool) == IF tool.builtin THEN BuiltinResults ELSE CustomResults

RunErrors ==
    { McpInvalidParams("Missing required parameter"),
      PlainError("run failed"),
      ExecError("Command failed", "", "", "none", "SIGTERM", TRUE) }

\* how one call of tool.run(args) can end
RunOutcomes(tool) ==
    { [kind |-> "return", result |-> r, error |-> NoError] : r \in ResultsOf(tool) }
    \cup
    { [kind |-> "throw", result |-> NoKeys, error |-> e] : e \in RunErrors }

NoRun == [kind |-> "none", result |-> NoKeys, error |-> NoError]

-----------------------------------------------------------------------------
(* ToolRegistry: a Map from tool.name to the tool, in insertion order *)

MapKeys(m) == { m[i].key : i \in 1..Len(m) }

MapHas(m, k) == k \in MapKeys(m)

\* Map.prototype.get: the value stored under k, or undefined
MapGet(m, k) ==
    IF MapHas(m, k)
    THEN (CHOOSE e \in { m[i] : i \in 1..Len(m) } : e.key = k).value
    ELSE NoTool

\* mutant of MapSet: a key that is set again moves to the end
MapSetMovesToEnd(m, k, v) ==
    Append(SelectSeq(m, LAMBDA e : e.key # k), [key |-> k, value |-> v])

\* Map.prototype.set: an existing key keeps its place and gets the new value,
\* a new key goes last
MapSet(m, k, v) ==
    IF MapHas(m, k)
    THEN [i \in 1..Len(m) |-> IF m[i].key = k THEN [key |-> k, value |-> v] ELSE m[i]]
    ELSE Append(m, [key |-> k, value |-> v])

\* Map.prototype.delete
MapDelete(m, k) == SelectSeq(m, LAMBDA e : e.key # k)

\* register(): the guard of lines 33-35
RegisterThrows(tool) == ~IsTruthy(tool.name) \/ ~IsTruthy(tool.execute)

\* register(): line 37
Register(m, tool) == MapSet(m, tool.name, tool)

\* mutant of Clear: only the built-in tools are dropped
ClearKeepsCallerTools(m) == SelectSeq(m, LAMBDA e : ~e.value.builtin)

\* clear(): this.tools.clear()
Clear(m) == << >>

\* registerDefaultTools(): nine register() calls of freshly built tools;
\* c is the number of tools stored before the first of them
RECURSIVE RegisterDefaultsFrom(_, _, _)
RegisterDefaultsFrom(m, c, i) ==
    IF i > Len(DefaultToolNames) THEN m
    ELSE RegisterDefaultsFrom(
             Register(m, NewTool(DefaultToolNames[i], "function", c + i, TRUE)),
             c, i + 1)

RegisterDefaultTools(m, c) == RegisterDefaultsFrom(m, c, 1)

\* get(), has(), size(), getToolNames()
Get(name) == MapGet(tools, name)

Has(name) == MapHas(tools, name)

Size == Len(tools)

GetToolNames == [i \in 1..Len(tools) |-> tools[i].key]

\* getDefinition(): the descriptor of a tool (description and inputSchema are
\* fixed per tool class, and stand behind the name here)
GetDefinition(tool) == [name |-> tool.name]

\* list(): the descriptors of the Map's values, in the Map's order
List == [i \in 1..Len(tools) |-> GetDefinition(tools[i].value)]

\* bookkeeping of firstRegistered for one stored tool
NoteRegistered(fr, m, name, c) ==
    IF MapHas(m, name) THEN fr ELSE [fr EXCEPT ![name] = c]

AllNames == { DefaultToolNames[i] : i \in 1..Len(DefaultToolNames) } \cup RegisterNames \cup LookupNames

DefaultNameSet == { DefaultToolNames[i] : i \in 1..Len(DefaultToolNames) }

-----------------------------------------------------------------------------
(* BaseTool: the dispatch wrapper *)

\* ...(cond && { ... }) inside an object literal
Optional(cond, obj) == IF cond THEN obj ELSE NoKeys

\* a string or code that is set (neither undefined, null nor empty)
Present(v) == v \notin {"none", ""}

\* formatSuccess(): { success: true, execution_time_ms, ...result }
FormatSuccess(result, executionTime) ==
    Spread([success |-> TRUE, execution_time_ms |-> executionTime], result)

\* formatError(): { success: false, execution_time_ms, error: error.message,
\*   ...stdout, ...stderr, ...exit_code, ...signal, ...timeout }
FormatError(error, executionTime) ==
    Spread(Spread(Spread(Spread(Spread(
        [success |-> FALSE, execution_time_ms |-> executionTime,
         error |-> error.message],
        Optional(Present(error.stdout), [stdout |-> error.stdout])),
        Optional(Present(error.stderr), [stderr |-> error.stderr])),
        Optional(Present(error.code), [exit_code |-> error.code])),
        Optional(Present(error.signal), [signal |-> error.signal])),
        Optional(error.killed, [timeout |-> TRUE]))

Returned(env) == [kind |-> "returned", envelope |-> env, error |-> NoError]

Raised(err) == [kind |-> "raised", envelope |-> NoKeys, error |-> err]

NoOutcome == [kind |-> "none", envelope |-> NoKeys, error |-> NoError]

\* BaseTool.execute(args), given how run(args) ended and the elapsed time the
\* wrapper measured
BaseToolExecute(ro, executionTime) ==
    IF ro.kind = "return"
    THEN Returned(FormatSuccess(ro.result, executionTime))
    ELSE IF ro.error.class = "McpError"
         THEN Raised(ro.error)
         ELSE Returned(FormatError(ro.error, executionTime))

\* ToolRegistry.execute(toolName, args): a tool whose execute is not a
\* function makes the call expression throw a TypeError
RegistryExecute(tool, ro, executionTime) ==
    IF tool = NoTool
    THEN Raised(McpMethodNotFound("Unknown tool"))
    ELSE IF IsCallable(tool.execute)
         THEN BaseToolExecute(ro, executionTime)
         ELSE Raised(NotAFunctionError)

\* the CallToolRequest handler of server.js: an McpError passes, any other
\* error becomes McpError(InternalError, "Tool execution failed: ...")
ServerHandle(out) ==
    IF out.kind = "raised" /\ out.error.class # "McpError"
    THEN Raised(McpInternalError("Tool execution failed"))
    ELSE out

NoCall ==
    [name |-> "", found |-> FALSE, invoked |-> NoTool, run |-> NoRun,
     elapsed |-> 0, outcome |-> NoOutcome, response |-> NoOutcome]

-----------------------------------------------------------------------------
(* Registry actions *)

RegOp(op, tool, threw) == [op |-> op, tool |-> tool, threw |-> threw]

\* tools stored so far by callers (the rest were stored by registerDefaultTools)
CallerRegistrations == clock - Len(DefaultToolNames) * (1 + resets)

\* the body shared by register(tool) and addCustomTool(toolClass)
DoRegister(op, tool) ==
    /\ CallerRegistrations < MaxRegisterCalls
    /\ IF RegisterThrows(tool)
       THEN /\ lastOp' = RegOp(op, tool, TRUE)
            /\ UNCHANGED <<tools, clock, firstRegistered>>
       ELSE /\ tools' = Register(tools, tool)
            /\ clock' = clock + 1
            /\ firstRegistered' = NoteRegistered(firstRegistered, tools, tool.name, clock + 1)
            /\ lastOp' = RegOp(op, tool, FALSE)
    /\ call' = NoCall
    /\ UNCHANGED resets
    /\ UNCHANGED nonRegVars

RegisterTool ==
    \E n \in RegisterNames, e \in ExecuteValues :
        DoRegister("register", NewTool(n, e, clock + 1, FALSE))

AddCustomTool ==
    \E c \in CustomToolClasses :
        DoRegister("addCustomTool", NewTool(c, "function", clock + 1, FALSE))

Unregister ==
    \E n \in LookupNames :
        /\ tools' = MapDelete(tools, n)
        /\ firstRegistered' = [firstRegistered EXCEPT ![n] = 0]
        /\ lastOp' = RegOp("unregister", [NoTool EXCEPT !.name = n], FALSE)
        /\ call' = NoCall
        /\ UNCHANGED <<clock, resets>>
        /\ UNCHANGED nonRegVars

ClearTools ==
    /\ tools' = Clear(tools)
    /\ firstRegistered' = [n \in AllNames |-> 0]
    /\ lastOp' = RegOp("clear", NoTool, FALSE)
    /\ call' = NoCall
    /\ UNCHANGED <<clock, resets>>
    /\ UNCHANGED nonRegVars

\* reset(): clear() then registerDefaultTools()
Reset ==
    /\ resets < MaxResets
    /\ resets' = resets + 1
    /\ tools' = RegisterDefaultTools(Clear(tools), clock)
    /\ clock' = clock + Len(DefaultToolNames)
    /\ firstRegistered' =
          [n \in AllNames |->
              IF MapHas(tools', n) /\ ~MapHas(Clear(tools), n)
              THEN MapGet(tools', n).inst
              ELSE IF MapHas(tools', n) THEN firstRegistered[n] ELSE 0]
    /\ lastOp' = RegOp("reset", NoTool, FALSE)
    /\ call' = NoCall
    /\ UNCHANGED nonRegVars

\* one "invoke tool" request through server.js
CallTool ==
    \E n \in LookupNames, t \in 0..MaxElapsed :
        LET tool == Get(n)
            runs == tool # NoTool /\ IsCallable(tool.execute)
        IN  \E ro \in (IF runs THEN RunOutcomes(tool) ELSE {NoRun}) :
                /\ call' = [name |-> n,
                            found |-> tool # NoTool,
                            invoked |-> IF runs THEN tool ELSE NoTool,
                            run |-> ro,
                            elapsed |-> t,
                            outcome |-> RegistryExecute(tool, ro, t),
                            response |-> ServerHandle(RegistryExecute(tool, ro, t))]
                /\ lastOp' = RegOp("execute", [NoTool EXCEPT !.name = n], FALSE)
                /\ UNCHANGED <<tools, clock, firstRegistered, resets>>
                /\ UNCHANGED nonRegVars

-----------------------------------------------------------------------------
(* Paths: path.resolve, path.normalize, String.includes, String.startsWith *)

\* A path string is modelled by its segments and whether it starts with "/".
\* "a..b" is an ordinary name whose text contains two dots; "u2" is a name
\* whose text starts with the text of "u".
Segments == {"..", "home", "u", "u2", "etc", "a..b"}

\* os.homedir()
HomeDir == << "home", "u" >>

\* what process.cwd(), the directory relative paths resolve against, can be
WorkingDirs == { << "home", "u" >>, << "srv" >> }

RECURSIVE SeqsUpTo(_)
SeqsUpTo(n) ==
    IF n = 0 THEN { << >> }
    ELSE SeqsUpTo(n - 1) \cup
         { Append(q, x) : q \in { r \in SeqsUpTo(n - 1) : Len(r) = n - 1 },
                          x \in Segments }

\* the path strings a caller sends ("" is the relative path of no segments)
RawPaths == { [abs |-> a, segs |-> q] : a \in BOOLEAN, q \in SeqsUpTo(MaxPathLen) }

\* a few fixed paths for the other argument of a two-path operation
OtherPaths ==
    { [abs |-> TRUE, segs |-> << "home", "u", "etc" >>],
      [abs |-> FALSE, segs |-> << "..", "etc" >>] }

EmptyString == [abs |-> FALSE, segs |-> << >>]

\* path.resolve on the segments: a ".." drops the segment before it (and
\* stays at the root when there is none)
RECURSIVE ResolveSegs(_, _)
ResolveSegs(stack, segs) ==
    IF segs = << >> THEN stack
    ELSE IF Head(segs) = ".."
         THEN ResolveSegs(IF stack = << >> THEN << >>
                          ELSE SubSeq(stack, 1, Len(stack) - 1), Tail(segs))
         ELSE ResolveSegs(Append(stack, Head(segs)), Tail(segs))

\* normalize(resolve(filePath)): absolute, without ".." segments
Resolve(dir, p) == ResolveSegs(<< >>, IF p.abs THEN p.segs ELSE dir \o p.segs)

\* the text of a segment contains ".."
SegIncludesDotDot(x) == x \in {"..", "a..b"}

\* normalizedPath.includes('..')
IncludesDotDot(q) == \E i \in 1..Len(q) : SegIncludesDotDot(q[i])

\* the text of segment x starts with the text of segment y
SegStartsWith(x, y) == x = y \/ << x, y >> \in { << "u2", "u" >> }

\* normalizedPath.startsWith(homePath), on strings: the last segment of the
\* home directory only has to be a prefix of the path's segment in that place
StartsWith(q, home) ==
    /\ Len(q) >= Len(home)
    /\ \A i \in 1..(Len(home) - 1) : q[i] = home[i]
    /\ SegStartsWith(q[Len(home)], home[Len(home)])

\* !filePath || typeof filePath !== 'string' (path arguments are strings here)
IsEmptyPath(p) == p = EmptyString

\* validateAndNormalizePath throws
GuardThrows(dir, p) ==
    \/ IsEmptyPath(p)
    \/ IncludesDotDot(Resolve(dir, p)) /\ ~StartsWith(Resolve(dir, p), HomeDir)

-----------------------------------------------------------------------------
(* File and directory handlers, up to their first filesystem call *)

\* handlers with one path argument
OnePathHandlers ==
    { "file_read", "file_write", "file_write_backup", "file_delete",
      "dir_create", "dir_list", "dir_delete", "dir_exists" }

\* file_operations copy and move: source and destination
TwoPathHandlers == { "file_copy", "file_move" }

FsCall(fn, q) == [fn |-> fn, path |-> q]

NoFileReq ==
    [handler |-> "none", paths |-> << >>, cwd |-> << >>,
     outcome |-> "none", fsCalls |-> << >>]

\* The handler's run(): McpError InvalidParams for an empty path argument,
\* then the guard on each path argument in the order the code applies it,
\* then the first filesystem call, existsSync on the (first) normalized path.
\* Every handler applies the guard to all its paths before that call;
\* createBackup swallows the guard's error and writeFileWithMetadata raises it
\* again.  What follows the first call depends on the filesystem's contents and
\* is not part of this request record; file_write without backup checks the
\* encoding and the content size between the guard and the first call.
HandleFile(handler, paths, dir, encodingOk, sizeOk) ==
    IF \E i \in 1..Len(paths) : IsEmptyPath(paths[i])
    THEN [handler |-> handler, paths |-> paths, cwd |-> dir,
          outcome |-> "invalid_params", fsCalls |-> << >>]
    ELSE IF \E i \in 1..Len(paths) : GuardThrows(dir, paths[i])
    THEN [handler |-> handler, paths |-> paths, cwd |-> dir,
          outcome |-> "rejected", fsCalls |-> << >>]
    ELSE IF handler = "file_write" /\ ~(encodingOk /\ sizeOk)
    THEN [handler |-> handler, paths |-> paths, cwd |-> dir,
          outcome |-> "failed", fsCalls |-> << >>]
    ELSE [handler |-> handler, paths |-> paths, cwd |-> dir,
          outcome |-> "proceeded",
          fsCalls |-> << FsCall("existsSync",
                                IF handler = "file_write"
                                THEN SubSeq(Resolve(dir, paths[1]), 1,
                                            Len(Resolve(dir, paths[1])) - 1)
                                ELSE Resolve(dir, paths[1])) >>]

\* a request to a handler with one path argument
OnePathRequest ==
    /\ fileReq = NoFileReq
    /\ \E h \in OnePathHandlers, p \in RawPaths, dir \in WorkingDirs,
          eo \in BOOLEAN, so \in BOOLEAN :
          /\ (h # "file_write") => (eo /\ so)
          /\ fileReq' = HandleFile(h, << p >>, dir, eo, so)
    /\ UNCHANGED nonGuardVars

\* a request to copy or move
TwoPathRequest ==
    /\ fileReq = NoFileReq
    /\ \E h \in TwoPathHandlers, p \in RawPaths, o \in OtherPaths,
          dir \in WorkingDirs, first \in BOOLEAN :
          fileReq' = HandleFile(h, IF first THEN << p, o >> ELSE << o, p >>,
                                dir, TRUE, TRUE)
    /\ UNCHANGED nonGuardVars

\* the response has been sent
FileRespond ==
    /\ fileReq # NoFileReq
    /\ fileReq' = NoFileReq
    /\ UNCHANGED nonGuardVars

-----------------------------------------------------------------------------
(* execute_command and execute_script: options, the spawn primitive, the      *)
(* script's temporary file                                                    *)

\* command-utils.js
DEFAULT_TIMEOUT == 30000

MAX_TIMEOUT == 300000

\* constants.js, TIMEOUTS.SCRIPT
TIMEOUT_SCRIPT == 60000

Invocations == 1..MaxInvocations

\* the timeout argument of a request: absent, null, or a number
Undefined == [type |-> "undefined", value |-> 0]

Null == [type |-> "null", value |-> 0]

Number(n) == [type |-> "number", value |-> n]

TimeoutArgs ==
    { Undefined, Null, Number(0), Number(-30000), Number(-1), Number(1),
      Number(500),
      Number(999), Number(1000), Number(1001), Number(1500), Number(30000), Number(45000),
      Number(60000), Number(299999), Number(300000), Number(300001),
      Number(400000) }

\* the timeout arguments the invocations below are started with: what follows
\* the spawn depends on the option's sign only
StartTimeoutArgs == { Undefined, Number(-1) }

\* x || y on a timeout argument
OrElse(x, y) == IF x.type = "number" /\ x.value # 0 THEN x.value ELSE y

Min(a, b) == IF a <= b THEN a ELSE b

\* getExecOptions(): timeout: Math.min(options.timeout || DEFAULT_TIMEOUT, MAX_TIMEOUT)
GetExecOptions(timeoutArg) ==
    [timeout |-> Min(OrElse(timeoutArg, DEFAULT_TIMEOUT), MAX_TIMEOUT)]

NoOptions == [timeout |-> 0]

\* ExecuteScriptTool.run: const { ..., timeout = TIMEOUTS.SCRIPT } = args
\* (the default applies to an absent argument only)
ScriptTimeoutArg(timeoutArg) ==
    IF timeoutArg = Undefined THEN Number(TIMEOUT_SCRIPT) ELSE timeoutArg

\* interpreters a request names; "lua" is in neither table
Interpreters == {"bash", "lua"}

\* SCRIPT_COMMANDS[interpreter] is defined
HasCommandBuilder(interpreter) ==
    interpreter \in {"bash", "sh", "powershell", "cmd", "python", "python3",
                     "node", "perl", "ruby"}

\* the `tempFile` variable before it is assigned
NullFile == 0

\* finally { if (tempFile) { unlinkSync(tempFile) ... } }: the cleanup runs
\* whenever tempFile was assigned, however the try block ended
AttemptsUnlinkOnlyOnReturn(tempFile, how) == tempFile # NullFile /\ how = "return"

AttemptsUnlink(tempFile, how) == tempFile # NullFile

\* what the try block of run() produced
HandlerReturn(result) == [kind |-> "return", result |-> result, error |-> NoError]

HandlerThrow(err) == [kind |-> "throw", result |-> NoKeys, error |-> err]

\* the object both handlers return after a normal exit of the child
ExecResult == [stdout |-> "out", exit_code |-> "0"]

FsError(code) ==
    [class |-> "Error", code |-> code, message |-> "filesystem call failed",
     stdout |-> "", stderr |-> "", signal |-> "none", killed |-> FALSE]

\* exec() refuses a negative timeout option
TimeoutRangeError ==
    [class |-> "RangeError", code |-> "ERR_OUT_OF_RANGE",
     message |-> "The value of timeout is out of range",
     stdout |-> "", stderr |-> "", signal |-> "none", killed |-> FALSE]

\* the error exec() keeps when the child's output exceeds maxBuffer
MaxBufferError ==
    [class |-> "RangeError", code |-> "ERR_CHILD_PROCESS_STDIO_MAXBUFFER",
     message |-> "stdout maxBuffer length exceeded",
     stdout |-> "out", stderr |-> "", signal |-> "none", killed |-> FALSE]

\* how a child that nobody killed can end: exit codes, a signal from outside,
\* a failure to start
ChildEndings == {"exit0", "exit1", "signal", "spawn_error"}

\* the settlement of promisify(exec) for a child that ended by itself
ExecSettles(ending) ==
    CASE ending = "exit0" -> HandlerReturn(ExecResult)
      [] ending = "exit1" ->
            HandlerThrow(ExecError("Command failed", "out", "err", "1", "none", FALSE))
      [] ending = "signal" ->
            HandlerThrow(ExecError("Command failed", "", "", "none", "SIGKILL", FALSE))
      [] OTHER ->
            HandlerThrow(ExecError("spawn failed", "", "", "ENOENT", "none", FALSE))

\* the settlement after exec() sent the kill signal and the child died of it:
\* on timeout the error carries killed = true and the kill signal; on overflow
\* exec() passes the maxBuffer error it kept
ExecSettlesKilledAlwaysFlagged(why) ==
    HandlerThrow(ExecError("Command failed", "", "", "none", "SIGTERM", TRUE))

ExecSettlesKilled(why) ==
    IF why = "timeout"
    THEN HandlerThrow(ExecError("Command failed", "", "", "none", "SIGTERM", TRUE))
    ELSE HandlerThrow(MaxBufferError)

\* how a child that ignored the kill signal can end
SurvivorEndings == {"exit0", "exit1"}

\* the settlement when the child ignored the kill signal (getExecOptions sets
\* no killSignal, so exec() sends SIGTERM, once) and ended by itself later:
\* exec() reports an exit with code 0 and no signal as success
ExecSettlesSurvivor(why, ending) ==
    IF why = "maxbuffer"
    THEN HandlerThrow(MaxBufferError)
    ELSE IF ending = "exit0"
         THEN HandlerReturn(ExecResult)
         ELSE HandlerThrow(ExecError("Command failed", "", "", "1", "none", TRUE))

IdleInvocation ==
    [pc |-> "idle", tool |-> "none", interpreter |-> "",
     options |-> NoOptions, tempDir |-> 0, tempFile |-> NullFile, wrote |-> FALSE,
     child |-> "none", timerArmed |-> FALSE, why |-> "none",
     unlinkAttempted |-> FALSE, unlinkFailed |-> FALSE,
     settled |-> NoRun, outcome |-> NoOutcome]

\* the invocation is over: BaseTool.execute wraps what the try block produced
Finished(rec, settled) ==
    [rec EXCEPT !.pc = "done", !.settled = settled,
                !.outcome = BaseToolExecute(settled, MaxElapsed),
                !.child = IF rec.child = "none" THEN "none" ELSE "closed",
                !.timerArmed = FALSE]

\* the finally block on a record: unlinkSync fails when the file is not there
\* or when the filesystem refuses; the failure is logged and nothing else
WithCleanup(rec, how, fileThere, refuses) ==
    IF AttemptsUnlink(rec.tempFile, how)
    THEN [rec EXCEPT !.unlinkAttempted = TRUE,
                     !.unlinkFailed = ~fileThere \/ refuses]
    ELSE rec

\* the script files left after the finally block
FilesAfterCleanup(files, rec, how, refuses) ==
    IF AttemptsUnlink(rec.tempFile, how) /\ ~refuses
    THEN files \ {rec.tempFile}
    ELSE files

\* mkdtempSync(prefix): a directory that did not exist before, named by the
\* number of directories made so far
MkdtempReusesName(dirs) == 1

Mkdtemp(dirs) == Cardinality(dirs) + 1

\* ExecuteCommandTool.run up to `await execAsync(...)`
StartCommand(i) ==
    /\ inv[i].pc = "idle"
    /\ started < MaxStarts
    /\ started' = started + 1
    /\ \E valid \in BOOLEAN, ta \in StartTimeoutArgs :
          LET base == [IdleInvocation EXCEPT !.tool = "execute_command"]
              opts == GetExecOptions(ta)
          IN  inv' = [inv EXCEPT ![i] =
                  IF ~valid
                  THEN Finished(base,
                           HandlerThrow(McpInvalidParams("Command must be a non-empty string")))
                  ELSE IF opts.timeout < 0
                  THEN Finished([base EXCEPT !.options = opts],
                                HandlerThrow(TimeoutRangeError))
                  ELSE [base EXCEPT !.pc = "running", !.options = opts,
                                    !.child = "running",
                                    !.timerArmed = opts.timeout > 0]]
    /\ UNCHANGED <<tmpDirs, scriptFiles>>
    /\ UNCHANGED nonExecVars

\* ExecuteScriptTool.run up to `await execAsync(...)`: validation, mkdtempSync,
\* writeFileSync, buildScriptCommand, getExecOptions, and the finally block
\* when one of them throws
StartScript(i) ==
    /\ inv[i].pc = "idle"
    /\ started < MaxStarts
    /\ started' = started + 1
    /\ \E valid \in BOOLEAN, ip \in Interpreters, ta \in StartTimeoutArgs,
          mkdtempFails \in BOOLEAN, writeFails \in BOOLEAN,
          partial \in BOOLEAN, refuses \in BOOLEAN :
          LET base == [IdleInvocation EXCEPT !.tool = "execute_script",
                                             !.interpreter = ip]
              dir  == Mkdtemp(tmpDirs)
              made == [base EXCEPT !.tempDir = dir, !.tempFile = dir]
              opts == GetExecOptions(ScriptTimeoutArg(ta))
          IN  IF ~valid
              THEN /\ ~mkdtempFails /\ ~writeFails /\ ~partial /\ ~refuses
                   /\ inv' = [inv EXCEPT ![i] = Finished(base,
                         HandlerThrow(McpInvalidParams("Script content must be a non-empty string")))]
                   /\ UNCHANGED <<tmpDirs, scriptFiles>>
              ELSE IF mkdtempFails
              THEN /\ ~writeFails /\ ~partial /\ ~refuses
                   /\ inv' = [inv EXCEPT ![i] =
                         Finished(base, HandlerThrow(FsError("EACCES")))]
                   /\ UNCHANGED <<tmpDirs, scriptFiles>>
              ELSE IF writeFails
              THEN \* the write throws; it may have created the file already
                   /\ tmpDirs' = tmpDirs \cup {dir}
                   /\ (~partial) => ~refuses
                   /\ scriptFiles' =
                         FilesAfterCleanup(
                             IF partial THEN scriptFiles \cup {dir} ELSE scriptFiles,
                             made, "throw", refuses)
                   /\ inv' = [inv EXCEPT ![i] =
                         Finished(WithCleanup(made, "throw", partial, refuses),
                                  HandlerThrow(FsError("ENOSPC")))]
              ELSE IF ~HasCommandBuilder(ip)
              THEN \* buildScriptCommand throws after the file was written
                   /\ ~partial
                   /\ tmpDirs' = tmpDirs \cup {dir}
                   /\ scriptFiles' =
                         FilesAfterCleanup(scriptFiles \cup {dir}, made, "throw", refuses)
                   /\ inv' = [inv EXCEPT ![i] =
                         Finished(WithCleanup([made EXCEPT !.wrote = TRUE],
                                              "throw", TRUE, refuses),
                                  HandlerThrow(McpInvalidParams("Unsupported interpreter")))]
              ELSE IF opts.timeout < 0
              THEN \* exec() throws on the timeout option
                   /\ ~partial
                   /\ tmpDirs' = tmpDirs \cup {dir}
                   /\ scriptFiles' =
                         FilesAfterCleanup(scriptFiles \cup {dir}, made, "throw", refuses)
                   /\ inv' = [inv EXCEPT ![i] =
                         Finished(WithCleanup([made EXCEPT !.wrote = TRUE, !.options = opts],
                                              "throw", TRUE, refuses),
                                  HandlerThrow(TimeoutRangeError))]
              ELSE /\ ~partial /\ ~refuses
                   /\ tmpDirs' = tmpDirs \cup {dir}
                   /\ scriptFiles' = scriptFiles \cup {dir}
                   /\ inv' = [inv EXCEPT ![i] =
                         [made EXCEPT !.pc = "running", !.wrote = TRUE,
                                      !.options = opts, !.child = "running",
                                      !.timerArmed = opts.timeout > 0]]
    /\ UNCHANGED nonExecVars

\* the rest of run() once the awaited promise has settled: the finally block
\* of execute_script, then BaseTool.execute's envelope
Continue(i, settled, refuses) ==
    LET how == settled.kind
        rec == inv[i]
    IN  /\ inv' = [inv EXCEPT ![i] =
              Finished(WithCleanup(rec, how, rec.tempFile \in scriptFiles, refuses),
                       settled)]
        /\ scriptFiles' = FilesAfterCleanup(scriptFiles, rec, how, refuses)
        /\ UNCHANGED <<tmpDirs, started>>
        /\ UNCHANGED nonExecVars

\* the child ends by itself (or fails to start) and exec() settles
ChildEnds(i) ==
    /\ inv[i].pc = "running"
    /\ inv[i].child = "running"
    /\ \E ending \in ChildEndings, refuses \in BOOLEAN :
          /\ (inv[i].tool = "execute_command") => ~refuses
          /\ Continue(i, ExecSettles(ending), refuses)

\* exec()'s timer expires while the child runs: kill() sends the signal,
\* which the child obeys or ignores
TimerFires(i) ==
    /\ inv[i].pc = "running"
    /\ inv[i].child = "running"
    /\ inv[i].timerArmed
    /\ \E obeys \in BOOLEAN :
          inv' = [inv EXCEPT ![i].child = IF obeys THEN "dying" ELSE "surviving",
                             ![i].why = "timeout",
                             ![i].timerArmed = FALSE]
    /\ UNCHANGED <<tmpDirs, scriptFiles, started>>
    /\ UNCHANGED nonExecVars

\* the child's output exceeds maxBuffer: exec() keeps the error and kill()s;
\* the timer stays armed until the child closes
OutputOverflows(i) ==
    /\ inv[i].pc = "running"
    /\ inv[i].child = "running"
    /\ \E obeys \in BOOLEAN :
          inv' = [inv EXCEPT ![i].child = IF obeys THEN "dying" ELSE "surviving",
                             ![i].why = "maxbuffer"]
    /\ UNCHANGED <<tmpDirs, scriptFiles, started>>
    /\ UNCHANGED nonExecVars

\* the killed child closes and exec() settles
KilledChildCloses(i) ==
    /\ inv[i].pc = "running"
    /\ inv[i].child = "dying"
    /\ \E refuses \in BOOLEAN :
          /\ (inv[i].tool = "execute_command") => ~refuses
          /\ Continue(i, ExecSettlesKilled(inv[i].why), refuses)

\* a child that ignored the kill signal ends by itself and exec() settles
SurvivorEnds(i) ==
    /\ inv[i].pc = "running"
    /\ inv[i].child = "surviving"
    /\ \E ending \in SurvivorEndings, refuses \in BOOLEAN :
          /\ (inv[i].tool = "execute_command") => ~refuses
          /\ Continue(i, ExecSettlesSurvivor(inv[i].why, ending), refuses)

\* the response is sent; the slot can take the next request
Respond(i) ==
    /\ inv[i].pc = "done"
    /\ inv' = [inv EXCEPT ![i] = IdleInvocation]
    /\ UNCHANGED <<tmpDirs, scriptFiles, started>>
    /\ UNCHANGED nonExecVars

-----------------------------------------------------------------------------
(* The options handed to the spawn primitive *)

ExecTools == {"execute_command", "execute_script"}

NoOptReq ==
    [tool |-> "none", timeout |-> Undefined, working_directory |-> FALSE,
     environment |-> FALSE, passed |-> Undefined,
     options |-> [timeout |-> 0, cwd |-> FALSE, ownEnv |-> FALSE]]

\* the timeout a handler passes to getExecOptions: execute_script destructures
\* with a default, execute_command passes its argument on
PassedTimeout(tool, timeoutArg) ==
    IF tool = "execute_script" THEN ScriptTimeoutArg(timeoutArg) ELSE timeoutArg

\* the object getExecOptions returns: timeout, cwd only for a given working
\* directory, the process environment extended only for a given environment
\* (maxBuffer is the same in every call)
FullExecOptions(passed, workingDirectory, environment) ==
    [timeout |-> GetExecOptions(passed).timeout,
     cwd |-> workingDirectory,
     ownEnv |-> environment]

\* a handler builds the options for its spawn; execute_script passes no
\* environment
BuildOptions ==
    /\ optReq = NoOptReq
    /\ \E tool \in ExecTools, ta \in TimeoutArgs, wd \in BOOLEAN, env \in BOOLEAN :
          /\ (tool = "execute_script") => ~env
          /\ optReq' =
                [tool |-> tool, timeout |-> ta, working_directory |-> wd,
                 environment |-> env, passed |-> PassedTimeout(tool, ta),
                 options |-> FullExecOptions(PassedTimeout(tool, ta), wd, env)]
    /\ UNCHANGED nonOptVars

\* the options have been handed to exec()
OptionsUsed ==
    /\ optReq # NoOptReq
    /\ optReq' = NoOptReq
    /\ UNCHANGED nonOptVars

-----------------------------------------------------------------------------
(* Strings, bytes and the encodings of writeFileSync / readFileSync.          *)
(* A string is a sequence of UTF-16 code units, file data a sequence of bytes *)

\* constants.js, FILE_ENCODINGS
FILE_ENCODINGS == {"utf8", "utf-8", "ascii", "latin1", "binary", "hex", "base64"}

\* an encoding argument outside the list
OtherEncodings == {"utf16le"}

IsHighSurrogate(c) == 55296 <= c /\ c <= 56319

IsLowSurrogate(c) == 56320 <= c /\ c <= 57343

\* U+FFFD as UTF-8
ReplacementBytes == << 239, 191, 189 >>

ReplacementChar == 65533

Tail2(s) == SubSeq(s, 3, Len(s))

Tail3(s) == SubSeq(s, 4, Len(s))

Tail4(s) == SubSeq(s, 5, Len(s))

RECURSIVE Utf8Encode(_)
\* string -> bytes, 'utf8': a surrogate pair is one 4-byte sequence, a
\* surrogate on its own is written as U+FFFD
Utf8Encode(s) ==
    IF s = << >> THEN << >>
    ELSE LET c == Head(s) IN
         IF c < 128 THEN << c >> \o Utf8Encode(Tail(s))
         ELSE IF c < 2048
         THEN << 192 + (c \div 64), 128 + (c % 64) >> \o Utf8Encode(Tail(s))
         ELSE IF IsHighSurrogate(c) /\ Len(s) >= 2 /\ IsLowSurrogate(s[2])
         THEN LET cp == 65536 + (c - 55296) * 1024 + (s[2] - 56320)
              IN  << 240 + (cp \div 262144), 128 + ((cp \div 4096) % 64),
                     128 + ((cp \div 64) % 64), 128 + (cp % 64) >>
                  \o Utf8Encode(Tail2(s))
         ELSE IF IsHighSurrogate(c) \/ IsLowSurrogate(c)
         THEN ReplacementBytes \o Utf8Encode(Tail(s))
         ELSE << 224 + (c \div 4096), 128 + ((c \div 64) % 64), 128 + (c % 64) >>
              \o Utf8Encode(Tail(s))

IsContinuation(b) == 128 <= b /\ b <= 191

\* the range of the second byte after a 3-byte or 4-byte lead
SecondByteOk(lead, b) ==
    CASE lead = 224 -> 160 <= b /\ b <= 191
      [] lead = 237 -> 128 <= b /\ b <= 159
      [] lead = 240 -> 144 <= b /\ b <= 191
      [] lead = 244 -> 128 <= b /\ b <= 143
      [] OTHER -> IsContinuation(b)

RECURSIVE Utf8Decode(_)
\* bytes -> string, 'utf8': every ill-formed maximal subpart reads as U+FFFD
Utf8Decode(b) ==
    IF b = << >> THEN << >>
    ELSE LET l == Head(b) IN
         IF l < 128 THEN << l >> \o Utf8Decode(Tail(b))
         ELSE IF 194 <= l /\ l <= 223
         THEN IF Len(b) >= 2 /\ IsContinuation(b[2])
              THEN << (l - 192) * 64 + (b[2] - 128) >> \o Utf8Decode(Tail2(b))
              ELSE << ReplacementChar >> \o Utf8Decode(Tail(b))
         ELSE IF 224 <= l /\ l <= 239
         THEN IF Len(b) >= 2 /\ SecondByteOk(l, b[2])
              THEN IF Len(b) >= 3 /\ IsContinuation(b[3])
                   THEN << (l - 224) * 4096 + (b[2] - 128) * 64 + (b[3] - 128) >>
                        \o Utf8Decode(Tail3(b))
                   ELSE << ReplacementChar >> \o Utf8Decode(Tail2(b))
              ELSE << ReplacementChar >> \o Utf8Decode(Tail(b))
         ELSE IF 240 <= l /\ l <= 244
         THEN IF Len(b) >= 2 /\ SecondByteOk(l, b[2])
              THEN IF Len(b) >= 3 /\ IsContinuation(b[3])
                   THEN IF Len(b) >= 4 /\ IsContinuation(b[4])
                        THEN LET cp == (l - 240) * 262144 + (b[2] - 128) * 4096
                                       + (b[3] - 128) * 64 + (b[4] - 128) - 65536
                             IN  << 55296 + (cp \div 1024), 56320 + (cp % 1024) >>
                                 \o Utf8Decode(Tail4(b))
                        ELSE << ReplacementChar >> \o Utf8Decode(Tail3(b))
                   ELSE << ReplacementChar >> \o Utf8Decode(Tail2(b))
              ELSE << ReplacementChar >> \o Utf8Decode(Tail(b))
         ELSE << ReplacementChar >> \o Utf8Decode(Tail(b))

\* string -> bytes, 'latin1' / 'binary' (and 'ascii' when writing): the low
\* byte of every code unit
Latin1Encode(s) == [i \in 1..Len(s) |-> s[i] % 256]

\* bytes -> string, 'ascii': the high bit is dropped
AsciiDecode(b) == [i \in 1..Len(b) |-> b[i] % 128]

\* the value of a hexadecimal digit, -1 for any other code unit
HexValue(c) ==
    IF 48 <= c /\ c <= 57 THEN c - 48
    ELSE IF 97 <= c /\ c <= 102 THEN c - 87
    ELSE IF 65 <= c /\ c <= 70 THEN c - 55
    ELSE -1

HexDigit(v) == IF v < 10 THEN 48 + v ELSE 87 + v

RECURSIVE HexToBytes(_)
\* string -> bytes, 'hex': pairs of digits; the data ends at the first pair
\* that is not two digits, and an odd last character is dropped
HexToBytes(s) ==
    IF Len(s) < 2 \/ HexValue(s[1]) < 0 \/ HexValue(s[2]) < 0
    THEN << >>
    ELSE << 16 * HexValue(s[1]) + HexValue(s[2]) >> \o HexToBytes(Tail2(s))

RECURSIVE BytesToHex(_)
\* bytes -> string, 'hex': two lower-case digits per byte
BytesToHex(b) ==
    IF b = << >> THEN << >>
    ELSE << HexDigit(Head(b) \div 16), HexDigit(Head(b) % 16) >> \o BytesToHex(Tail(b))

\* the value of a base64 character (either alphabet), -1 for any other
Base64Value(c) ==
    IF 65 <= c /\ c <= 90 THEN c - 65
    ELSE IF 97 <= c /\ c <= 122 THEN c - 71
    ELSE IF 48 <= c /\ c <= 57 THEN c + 4
    ELSE IF c \in {43, 45} THEN 62
    ELSE IF c \in {47, 95} THEN 63
    ELSE -1

Base64Char(v) ==
    IF v < 26 THEN 65 + v
    ELSE IF v < 52 THEN 71 + v
    ELSE IF v < 62 THEN v - 4
    ELSE IF v = 62 THEN 43 ELSE 47

EqualsSign == 61

RECURSIVE Base64Values(_)
\* the 6-bit values of a base64 string: characters outside the alphabet are
\* skipped, '=' ends the data
Base64Values(s) ==
    IF s = << >> \/ Head(s) = EqualsSign THEN << >>
    ELSE IF Base64Value(Head(s)) < 0 THEN Base64Values(Tail(s))
    ELSE << Base64Value(Head(s)) >> \o Base64Values(Tail(s))

RECURSIVE ValuesToBytes(_)
\* four 6-bit values make three bytes; two make one, three make two
ValuesToBytes(v) ==
    IF Len(v) < 2 THEN << >>
    ELSE LET b1 == v[1] * 4 + (v[2] \div 16) IN
         IF Len(v) = 2 THEN << b1 >>
         ELSE LET b2 == (v[2] % 16) * 16 + (v[3] \div 4) IN
              IF Len(v) = 3 THEN << b1, b2 >>
              ELSE << b1, b2, (v[3] % 4) * 64 + v[4] >> \o ValuesToBytes(Tail4(v))

RECURSIVE BytesToBase64(_)
\* bytes -> string, 'base64', padded with '='
BytesToBase64(b) ==
    IF b = << >> THEN << >>
    ELSE LET c1 == Base64Char(b[1] \div 4) IN
         IF Len(b) = 1
         THEN << c1, Base64Char((b[1] % 4) * 16), EqualsSign, EqualsSign >>
         ELSE LET c2 == Base64Char((b[1] % 4) * 16 + (b[2] \div 16)) IN
              IF Len(b) = 2
              THEN << c1, c2, Base64Char((b[2] % 16) * 4), EqualsSign >>
              ELSE << c1, c2, Base64Char((b[2] % 16) * 4 + (b[3] \div 64)),
                      Base64Char(b[3] % 64) >> \o BytesToBase64(Tail3(b))

\* the bytes writeFileSync(path, string, encoding) stores
EncodeString(encoding, s) ==
    CASE encoding \in {"utf8", "utf-8"} -> Utf8Encode(s)
      [] encoding \in {"latin1", "binary", "ascii"} -> Latin1Encode(s)
      [] encoding = "hex" -> HexToBytes(s)
      [] OTHER -> ValuesToBytes(Base64Values(s))

\* a read that takes every byte for a character, whatever the encoding
DecodeBytesAsLatin1(encoding, b) == b

\* the string readFileSync(path, encoding) returns
DecodeBytes(encoding, b) ==
    CASE encoding \in {"utf8", "utf-8"} -> Utf8Decode(b)
      [] encoding \in {"latin1", "binary"} -> b
      [] encoding = "ascii" -> AsciiDecode(b)
      [] encoding = "hex" -> BytesToHex(b)
      [] OTHER -> BytesToBase64(b)

-----------------------------------------------------------------------------
(* Long strings: a text followed by a run of the letter x.  Content is        *)
(* [text, filler]: the code units of the text and the length of the run;      *)
(* file data is [bytes, filler] likewise.                                     *)

FillerChar == 120

MiB == 1024 * 1024

\* constants.js, FILE_LIMITS
MAX_READ_SIZE == 50 * 1024 * 1024

MAX_WRITE_SIZE == 100 * 1024 * 1024

Content(text, filler) == [text |-> text, filler |-> filler]

Data(bytes, filler) == [bytes |-> bytes, filler |-> filler]

\* content.length
ContentLength(c) == Len(c.text) + c.filler

\* stats.size
DataSize(d) == Len(d.bytes) + d.filler

\* the last code units of a content, for the padding test of base64
CharFromEnd(c, k) ==
    IF c.filler >= k THEN FillerChar
    ELSE IF Len(c.text) + c.filler >= k THEN c.text[Len(c.text) + c.filler - k + 1]
    ELSE 0

\* Buffer.byteLength(content, encoding): exact for the UTF-8 and one-byte
\* encodings, half the length for hex, three quarters of the unpadded
\* length for base64
ByteLength(encoding, c) ==
    CASE encoding \in {"utf8", "utf-8"} -> Len(Utf8Encode(c.text)) + c.filler
      [] encoding \in {"latin1", "binary", "ascii"} -> ContentLength(c)
      [] encoding = "hex" -> ContentLength(c) \div 2
      [] OTHER ->
            LET n  == ContentLength(c)
                n1 == IF CharFromEnd(c, 1) = EqualsSign THEN n - 1 ELSE n
                n2 == IF n1 > 1 /\ CharFromEnd(c, 2) = EqualsSign THEN n1 - 1 ELSE n1
            IN  (n2 * 3) \div 4

\* the encodings that store the run of x byte for byte; hex stores none of it
\* (x is no digit); base64 is not asked to store a run
KeepsFiller(encoding) ==
    encoding \in {"utf8", "utf-8", "latin1", "binary", "ascii"}

\* what writeFileSync(path, content, encoding) stores
EncodeContent(encoding, c) ==
    Data(EncodeString(encoding, c.text),
         IF KeepsFiller(encoding) THEN c.filler ELSE 0)

\* what readFileSync(path, encoding) returns for data within the read cap
\* (which has no run)
DecodeData(encoding, d) == Content(DecodeBytes(encoding, d.bytes), 0)

-----------------------------------------------------------------------------
(* directory_operations list: the summary of a listing *)

\* an item of listDirectory's result: with stats (detailed, and getFileStats
\* returned), with an error (getFileStats threw), or with neither (not
\* detailed).  kind stands for the flags is_file / is_directory /
\* is_symbolic_link of stats, modified for its time stamp.
StatItem(name, kind, size, modified) ==
    [name |-> name, shape |-> "stats", kind |-> kind, size |-> size,
     modified |-> modified]

ErrorItem(name) ==
    [name |-> name, shape |-> "error", kind |-> "other", size |-> 0, modified |-> 0]

BareItem(name) ==
    [name |-> name, shape |-> "bare", kind |-> "other", size |-> 0, modified |-> 0]

\* summary.largest_file / summary.most_recent before any entry qualifies
NullEntry == [null |-> TRUE, name |-> 0, size |-> 0, modified |-> 0]

\* the object stored for an item
EntryOf(item) ==
    [null |-> FALSE, name |-> item.name, size |-> item.size,
     modified |-> item.modified]

EmptySummary ==
    [total_items |-> 0, files |-> 0, directories |-> 0, symbolic_links |-> 0,
     other |-> 0, total_size |-> 0, largest_file |-> NullEntry,
     most_recent |-> NullEntry]

\* one turn of the loop of createListingSummary; largestSize is
\* largest_file.size (0 at the start), mostRecentTime is most_recent.modified
\* with null standing where most_recent is null
SummaryStep(summary, item) ==
    IF item.shape # "stats"
    THEN [summary EXCEPT !.other = @ + 1]
    ELSE LET counted ==
                 CASE item.kind = "file" ->
                        [summary EXCEPT
                            !.files = @ + 1,
                            !.total_size = @ + item.size,
                            !.largest_file =
                                IF item.size > summary.largest_file.size
                                THEN EntryOf(item)
                                ELSE @]
                   [] item.kind = "dir" -> [summary EXCEPT !.directories = @ + 1]
                   [] item.kind = "symlink" -> [summary EXCEPT !.symbolic_links = @ + 1]
                   [] OTHER -> [summary EXCEPT !.other = @ + 1]
         IN  IF summary.most_recent.null
                \/ item.modified > summary.most_recent.modified
             THEN [counted EXCEPT !.most_recent = EntryOf(item)]
             ELSE counted

RECURSIVE SummaryLoop(_, _)
SummaryLoop(summary, items) ==
    IF items = << >> THEN summary
    ELSE SummaryLoop(SummaryStep(summary, Head(items)), Tail(items))

\* createListingSummary(items)
CreateListingSummary(items) ==
    SummaryLoop([EmptySummary EXCEPT !.total_items = Len(items)], items)

\* sizes and time stamps of the entries listed
ItemSizes == {0, 10, 20, 30}

ItemTimes == {1, 2}

\* the items a listing can hold at position n (the position serves as name)
ItemsAt(n) ==
    { StatItem(n, "file", s, t) : s \in ItemSizes, t \in ItemTimes }
    \cup { StatItem(n, "dir", 0, t) : t \in ItemTimes }
    \cup { ErrorItem(n) }

RECURSIVE Listings(_)
\* the listings of exactly n items
Listings(n) ==
    IF n = 0 THEN { << >> }
    ELSE { Append(l, i) : l \in Listings(n - 1), i \in ItemsAt(n) }

NoListing == [asked |-> FALSE, items |-> << >>, summary |-> EmptySummary]

\* directory_operations list, detailed: result.summary =
\* createListingSummary(result.items)
ListDetailed ==
    /\ listing = NoListing
    /\ \E n \in 0..MaxItems : \E items \in Listings(n) :
          listing' = [asked |-> TRUE, items |-> items,
                      summary |-> CreateListingSummary(items)]
    /\ UNCHANGED nonListVars

\* the listing has been returned
ListReturned ==
    /\ listing # NoListing
    /\ listing' = NoListing
    /\ UNCHANGED nonListVars

-----------------------------------------------------------------------------
(* The filesystem under the file and directory handlers *)

\* directories that are there throughout: /, /home, the home directory, /srv
FixedDirs == { << >>, << "home" >>, << "home", "u" >>, << "srv" >> }

PathD == << "home", "u", "d" >>

PathDF == << "home", "u", "d", "f" >>

\* createBackup's `${normalizedPath}.backup-${timestamp}` for PathDF
PathDFBackup == << "home", "u", "d", "f.backup" >>

PathG == << "home", "u", "g" >>

\* a name with two dots in it, outside the home directory
PathX == << "srv", "a..b" >>

\* the paths whose state changes
Nodes == { PathD, PathDF, PathDFBackup, PathG, PathX }

\* the backup path of a file named f
BackupPath(q) == Append(SubSeq(q, 1, Len(q) - 1), "f.backup")

\* dirname()
Dirname(q) == IF q = << >> THEN << >> ELSE SubSeq(q, 1, Len(q) - 1)

NoNode == [kind |-> "none", data |-> Data(<< >>, 0)]

DirNode == [kind |-> "dir", data |-> Data(<< >>, 0)]

FileNode(d) == [kind |-> "file", data |-> d]

KindOf(f, q) ==
    IF q \in FixedDirs THEN "dir"
    ELSE IF q \in Nodes THEN f[q].kind
    ELSE "none"

\* existsSync(path)
Exists(f, q) == KindOf(f, q) # "none"

\* statSync(path).isDirectory() / isFile()
IsDirectory(f, q) == KindOf(f, q) = "dir"

IsFile(f, q) == KindOf(f, q) = "file"

\* readdirSync(path), as the set of entries
Entries(f, q) == { n \in Nodes : Dirname(n) = q /\ Exists(f, n) }

\* the nodes at or below a path
Subtree(q) ==
    { n \in Nodes : Len(n) >= Len(q) /\ SubSeq(n, 1, Len(q)) = q }

\* what a primitive hands back: the filesystem after it, and the code of the
\* error it threw ("none": it returned)
Done(f) == [fs |-> f, code |-> "none"]

Fails(f, code) == [fs |-> f, code |-> code]

RECURSIVE Mkdir(_, _, _)
\* mkdirSync(path, { recursive })
Mkdir(f, q, recursive) ==
    IF Exists(f, q)
    THEN IF recursive /\ IsDirectory(f, q) THEN Done(f) ELSE Fails(f, "EEXIST")
    ELSE IF IsFile(f, Dirname(q)) THEN Fails(f, "ENOTDIR")
    ELSE IF ~Exists(f, Dirname(q))
    THEN IF ~recursive THEN Fails(f, "ENOENT")
         ELSE LET up == Mkdir(f, Dirname(q), TRUE) IN
              IF up.code # "none" THEN up
              ELSE Done([up.fs EXCEPT ![q] = DirNode])
    ELSE Done([f EXCEPT ![q] = DirNode])

\* writeFileSync(path, content, encoding): opens with flag 'w', then writes
WriteFile(f, q, d) ==
    IF IsDirectory(f, q) THEN Fails(f, "EISDIR")
    ELSE IF IsFile(f, Dirname(q)) THEN Fails(f, "ENOTDIR")
    ELSE IF ~Exists(f, Dirname(q)) THEN Fails(f, "ENOENT")
    ELSE Done([f EXCEPT ![q] = FileNode(d)])

\* copyFileSync(source, destination)
CopyFileKeepsDestination(f, s, d) ==
    IF Exists(f, d) THEN Done(f) ELSE Done([f EXCEPT ![d] = f[s]])

CopyFile(f, s, d) ==
    IF ~Exists(f, s) THEN Fails(f, "ENOENT")
    ELSE IF IsDirectory(f, s) \/ IsDirectory(f, d) THEN Fails(f, "EISDIR")
    ELSE IF IsFile(f, Dirname(d)) THEN Fails(f, "ENOTDIR")
    ELSE IF ~Exists(f, Dirname(d)) THEN Fails(f, "ENOENT")
    ELSE Done([f EXCEPT ![d] = f[s]])

\* renameSync(source, destination); every directory that can be renamed here
\* is empty
Rename(f, s, d) ==
    IF ~Exists(f, s) THEN Fails(f, "ENOENT")
    ELSE IF IsFile(f, Dirname(d)) THEN Fails(f, "ENOTDIR")
    ELSE IF ~Exists(f, Dirname(d)) THEN Fails(f, "ENOENT")
    ELSE IF s = d THEN Done(f)
    ELSE IF d \in Subtree(s) THEN Fails(f, "EINVAL")
    ELSE IF IsFile(f, s) /\ IsDirectory(f, d) THEN Fails(f, "EISDIR")
    ELSE IF IsDirectory(f, s) /\ IsFile(f, d) THEN Fails(f, "ENOTDIR")
    ELSE IF IsDirectory(f, s) /\ Entries(f, d) # {} THEN Fails(f, "ENOTEMPTY")
    ELSE Done([f EXCEPT ![d] = f[s], ![s] = NoNode])

\* unlinkSync(path)
Unlink(f, q) ==
    IF ~Exists(f, q) THEN Fails(f, "ENOENT")
    ELSE IF IsDirectory(f, q) THEN Fails(f, "EISDIR")
    ELSE Done([f EXCEPT ![q] = NoNode])

\* rmSync(path, { recursive, force }): without recursive it refuses every
\* directory, empty or not
Rm(f, q, recursive, force) ==
    IF ~Exists(f, q)
    THEN IF force THEN Done(f) ELSE Fails(f, "ENOENT")
    ELSE IF IsDirectory(f, q) /\ ~recursive THEN Fails(f, "ERR_FS_EISDIR")
    ELSE Done([n \in Nodes |-> IF n \in Subtree(q) THEN NoNode ELSE f[n]])

-----------------------------------------------------------------------------
(* file-utils.js on that filesystem.  Every function hands back the          *)
(* filesystem after it and how it ended (HandlerReturn / HandlerThrow).       *)

\* process.cwd() of the server
ServerCwd == HomeDir

\* an absolute path argument
AbsPath(q) == [abs |-> TRUE, segs |-> q]

Normalized(p) == Resolve(ServerCwd, p)

\* the filesystem after a call, how the call ended, and the error as it was
\* first thrown
Ends(f, ro) == [fs |-> f, ro |-> ro, raw |-> ro.error]

\* the error validateAndNormalizePath throws
GuardError(p) ==
    IF IsEmptyPath(p)
    THEN PlainError("Path must be a non-empty string")
    ELSE PlainError("Path traversal detected - access denied")

\* OS-level failures the environment can make a primitive end with, whatever
\* the state of the modelled paths ("none": no such failure)
Faults == {"none", "EACCES", "ENOSPC", "EMFILE"}

\* an encoding argument: a name, or "undefined" when absent
EncodingArgs == FILE_ENCODINGS \cup OtherEncodings \cup {"undefined"}

\* const { encoding = 'utf8' } = args
EncodingOrDefault(e) == IF e = "undefined" THEN "utf8" ELSE e

\* validateEncoding throws
EncodingThrows(e) == e \notin FILE_ENCODINGS

\* readFileWithMetadata(filePath, encoding)
ReadFileWithMetadata(f, p, encoding, fault) ==
    LET q == Normalized(p) IN
    IF GuardThrows(ServerCwd, p) THEN Ends(f, HandlerThrow(GuardError(p)))
    ELSE IF ~Exists(f, q) THEN Ends(f, HandlerThrow(PlainError("File not found")))
    ELSE IF ~IsFile(f, q) THEN Ends(f, HandlerThrow(PlainError("Path is not a file")))
    ELSE IF DataSize(f[q].data) > MAX_READ_SIZE
    THEN Ends(f, HandlerThrow(PlainError("File too large")))
    ELSE IF EncodingThrows(encoding)
    THEN Ends(f, HandlerThrow(PlainError("Unsupported encoding")))
    ELSE IF fault # "none" THEN Ends(f, HandlerThrow(FsError(fault)))
    ELSE Ends(f, HandlerReturn(
             [file_path |-> q, content |-> DecodeData(encoding, f[q].data),
              encoding |-> encoding]))

\* writeFileSync ending in an OS-level failure: the file was opened (created
\* or emptied) before a failure to write, not before a failure to open
WriteFault(f, q, fault) ==
    IF fault = "ENOSPC" /\ WriteFile(f, q, Data(<< >>, 0)).code = "none"
    THEN WriteFile(f, q, Data(<< >>, 0)).fs
    ELSE f

\* writeFileWithMetadata(filePath, content, { encoding, create_directories });
\* writable is what the access checks for W_OK answer
WriteFileWithMetadata(f, p, content, encoding, createDirectories, writable, fault) ==
    LET q      == Normalized(p)
        parent == Dirname(q)
        made   == IF createDirectories /\ ~Exists(f, parent)
                  THEN Mkdir(f, parent, TRUE) ELSE Done(f)
        g      == made.fs
        wrote  == WriteFile(g, q, EncodeContent(encoding, content))
    IN
    IF GuardThrows(ServerCwd, p) THEN Ends(f, HandlerThrow(GuardError(p)))
    ELSE IF EncodingThrows(encoding)
    THEN Ends(f, HandlerThrow(PlainError("Unsupported encoding")))
    ELSE IF ByteLength(encoding, content) > MAX_WRITE_SIZE
    THEN Ends(f, HandlerThrow(PlainError("Content too large")))
    ELSE IF made.code # "none" THEN Ends(g, HandlerThrow(FsError(made.code)))
    ELSE IF ~Exists(g, parent)
    THEN Ends(g, HandlerThrow(PlainError("Parent directory does not exist")))
    ELSE IF ~writable
    THEN Ends(g, HandlerThrow(PlainError("No write permission")))
    ELSE IF fault # "none"
    THEN Ends(WriteFault(g, q, fault), HandlerThrow(FsError(fault)))
    ELSE IF wrote.code # "none" THEN Ends(g, HandlerThrow(FsError(wrote.code)))
    ELSE Ends(wrote.fs, HandlerReturn(
             [file_path |-> q,
              content_size |-> ByteLength(encoding, content),
              encoding |-> encoding,
              created |-> ~Exists(g, q),
              previous_size |-> IF IsFile(g, q) THEN DataSize(g[q].data) ELSE 0]))

\* copyFile(sourcePath, destinationPath, { overwrite })
CopyFileUtil(f, ps, pd, overwrite, fault) ==
    LET s      == Normalized(ps)
        d      == Normalized(pd)
        made   == IF ~Exists(f, Dirname(d)) THEN Mkdir(f, Dirname(d), TRUE) ELSE Done(f)
        copied == CopyFile(made.fs, s, d)
    IN
    IF GuardThrows(ServerCwd, ps) THEN Ends(f, HandlerThrow(GuardError(ps)))
    ELSE IF GuardThrows(ServerCwd, pd) THEN Ends(f, HandlerThrow(GuardError(pd)))
    ELSE IF ~Exists(f, s) THEN Ends(f, HandlerThrow(PlainError("Source file not found")))
    ELSE IF ~IsFile(f, s) THEN Ends(f, HandlerThrow(PlainError("Source is not a file")))
    ELSE IF Exists(f, d) /\ ~overwrite
    THEN Ends(f, HandlerThrow(PlainError("Destination already exists")))
    ELSE IF made.code # "none" THEN Ends(made.fs, HandlerThrow(FsError(made.code)))
    ELSE IF fault # "none" THEN Ends(made.fs, HandlerThrow(FsError(fault)))
    ELSE IF copied.code # "none" THEN Ends(made.fs, HandlerThrow(FsError(copied.code)))
    ELSE Ends(copied.fs, HandlerReturn(
             [operation |-> "copy", source |-> s, destination |-> d]))

\* moveFile(sourcePath, destinationPath, { overwrite })
MoveFileUtil(f, ps, pd, overwrite, fault) ==
    LET s     == Normalized(ps)
        d     == Normalized(pd)
        made  == IF ~Exists(f, Dirname(d)) THEN Mkdir(f, Dirname(d), TRUE) ELSE Done(f)
        moved == Rename(made.fs, s, d)
    IN
    IF GuardThrows(ServerCwd, ps) THEN Ends(f, HandlerThrow(GuardError(ps)))
    ELSE IF GuardThrows(ServerCwd, pd) THEN Ends(f, HandlerThrow(GuardError(pd)))
    ELSE IF ~Exists(f, s) THEN Ends(f, HandlerThrow(PlainError("Source file not found")))
    ELSE IF Exists(f, d) /\ ~overwrite
    THEN Ends(f, HandlerThrow(PlainError("Destination already exists")))
    ELSE IF made.code # "none" THEN Ends(made.fs, HandlerThrow(FsError(made.code)))
    ELSE IF fault # "none" THEN Ends(made.fs, HandlerThrow(FsError(fault)))
    ELSE IF moved.code # "none" THEN Ends(made.fs, HandlerThrow(FsError(moved.code)))
    ELSE Ends(moved.fs, HandlerReturn(
             [operation |-> "move", source |-> s, destination |-> d]))

\* deleteFile(filePath, { force })
DeleteFileUtil(f, p, force, fault) ==
    LET q == Normalized(p) IN
    IF GuardThrows(ServerCwd, p) THEN Ends(f, HandlerThrow(GuardError(p)))
    ELSE IF ~Exists(f, q)
    THEN IF force
         THEN Ends(f, HandlerReturn([operation |-> "delete", file_path |-> q,
                                     existed |-> FALSE]))
         ELSE Ends(f, HandlerThrow(PlainError("File not found")))
    ELSE IF IsDirectory(f, q)
    THEN Ends(f, HandlerThrow(PlainError("Path is a directory, not a file")))
    ELSE IF fault # "none" THEN Ends(f, HandlerThrow(FsError(fault)))
    ELSE Ends(Unlink(f, q).fs,
              HandlerReturn([operation |-> "delete", file_path |-> q,
                             existed |-> TRUE]))

\* createDirectory(dirPath, { recursive })
CreateDirectory(f, p, recursive, fault) ==
    LET q    == Normalized(p)
        made == Mkdir(f, q, recursive)
    IN
    IF GuardThrows(ServerCwd, p) THEN Ends(f, HandlerThrow(GuardError(p)))
    ELSE IF Exists(f, q)
    THEN IF IsDirectory(f, q)
         THEN Ends(f, HandlerReturn([operation |-> "create", directory_path |-> q,
                                     created |-> FALSE, existed |-> TRUE]))
         ELSE Ends(f, HandlerThrow(PlainError("Path exists but is not a directory")))
    ELSE IF fault # "none" THEN Ends(f, HandlerThrow(FsError(fault)))
    ELSE IF made.code # "none" THEN Ends(f, HandlerThrow(FsError(made.code)))
    ELSE Ends(made.fs, HandlerReturn([operation |-> "create", directory_path |-> q,
                                      created |-> TRUE, existed |-> FALSE]))

\* the items of a listing, in an order readdirSync may give them (here by
\* path); without detail they carry a name and a path only
RECURSIVE ItemsOf(_, _, _)
ItemsOf(f, entries, detailed) ==
    IF entries = {} THEN << >>
    ELSE LET n == CHOOSE x \in entries : TRUE IN
         << IF detailed
            THEN StatItem(n[Len(n)], f[n].kind, DataSize(f[n].data), 0)
            ELSE BareItem(n[Len(n)]) >>
         \o ItemsOf(f, entries \ {n}, detailed)

\* listDirectory(dirPath, { include_hidden, detailed }); no modelled entry is
\* hidden
ListDirectory(f, p, detailed, fault) ==
    LET q == Normalized(p) IN
    IF GuardThrows(ServerCwd, p) THEN Ends(f, HandlerThrow(GuardError(p)))
    ELSE IF ~Exists(f, q) THEN Ends(f, HandlerThrow(PlainError("Directory not found")))
    ELSE IF ~IsDirectory(f, q)
    THEN Ends(f, HandlerThrow(PlainError("Path is not a directory")))
    ELSE IF fault # "none" THEN Ends(f, HandlerThrow(FsError(fault)))
    ELSE Ends(f, HandlerReturn(
             [operation |-> "list", directory_path |-> q,
              item_count |-> Cardinality(Entries(f, q)),
              items |-> ItemsOf(f, Entries(f, q), detailed)]))

\* deleteDirectory(dirPath, { recursive, force })
DeleteDirectory(f, p, recursive, force, fault) ==
    LET q       == Normalized(p)
        removed == Rm(f, q, recursive, force)
    IN
    IF GuardThrows(ServerCwd, p) THEN Ends(f, HandlerThrow(GuardError(p)))
    ELSE IF ~Exists(f, q)
    THEN IF force
         THEN Ends(f, HandlerReturn([operation |-> "delete", directory_path |-> q,
                                     existed |-> FALSE]))
         ELSE Ends(f, HandlerThrow(PlainError("Directory not found")))
    ELSE IF ~IsDirectory(f, q)
    THEN Ends(f, HandlerThrow(PlainError("Path is not a directory")))
    ELSE IF fault # "none" THEN Ends(f, HandlerThrow(FsError(fault)))
    ELSE IF removed.code # "none" THEN Ends(f, HandlerThrow(FsError(removed.code)))
    ELSE Ends(removed.fs, HandlerReturn([operation |-> "delete", directory_path |-> q,
                                         existed |-> TRUE, recursive |-> recursive]))

\* checkDirectoryExists(dirPath)
CheckDirectoryExists(f, p) ==
    LET q == Normalized(p) IN
    IF GuardThrows(ServerCwd, p) THEN Ends(f, HandlerThrow(GuardError(p)))
    ELSE IF ~Exists(f, q)
    THEN Ends(f, HandlerReturn([operation |-> "exists", directory_path |-> q,
                                exists |-> FALSE]))
    ELSE Ends(f, HandlerReturn([operation |-> "exists", directory_path |-> q,
                                exists |-> IsDirectory(f, q),
                                is_directory |-> IsDirectory(f, q)]))

-----------------------------------------------------------------------------
(* The four tools' run(): argument checks, the file-utils call, and the       *)
(* catch block that turns some error codes into McpError InvalidParams.       *)

\* a thrown error after a catch block that converts the listed codes
Converted(err, codes) ==
    IF err.code \in codes
    THEN McpInvalidParams(
             CASE err.code = "ENOENT" -> "not found"
               [] err.code = "EACCES" -> "Permission denied"
               [] err.code = "EISDIR" -> "Path is a directory"
               [] err.code = "ENOTDIR" -> "Path is not a directory"
               [] err.code = "EEXIST" -> "already exists"
               [] err.code = "ENOTEMPTY" -> "Directory not empty"
               [] err.code = "ENOSPC" -> "No space left on device"
               [] err.code = "EXDEV" -> "Cannot move across different filesystems"
               [] OTHER -> "Too many open files")
    ELSE err

\* try { return { ...result, ...more } } catch (error) { convert or rethrow }
TryCatch(ended, more, codes) ==
    IF ended.ro.kind = "return"
    THEN Ends(ended.fs, HandlerReturn(Spread(ended.ro.result, more)))
    ELSE [fs |-> ended.fs, ro |-> HandlerThrow(Converted(ended.ro.error, codes)),
          raw |-> ended.ro.error]

FileReadCodes == {"ENOENT", "EACCES", "EISDIR"}

FileWriteCodes == {"ENOENT", "EACCES", "EISDIR", "ENOSPC"}

FileOperationsCodes ==
    {"ENOENT", "EACCES", "EISDIR", "EEXIST", "EXDEV", "ENOSPC", "EMFILE", "ENFILE"}

DirectoryOperationsCodes ==
    {"ENOENT", "EACCES", "ENOTDIR", "EEXIST", "ENOTEMPTY", "ENOSPC"}

\* FileReadTool.run({ file_path, encoding })
FileReadRun(f, p, encodingArg, fault) ==
    IF IsEmptyPath(p)
    THEN Ends(f, HandlerThrow(McpInvalidParams("file_path must be a non-empty string")))
    ELSE LET ended == ReadFileWithMetadata(f, p, EncodingOrDefault(encodingArg), fault) IN
         TryCatch(ended,
                  IF ended.ro.kind = "return"
                  THEN [operation |-> "file_read",
                        content_length |-> ContentLength(ended.ro.result.content)]
                  ELSE NoKeys,
                  FileReadCodes)

\* FileWriteTool.createBackup(filePath): whatever goes wrong in it is
\* swallowed
CreateBackup(f, p) ==
    LET q == Normalized(p) IN
    IF GuardThrows(ServerCwd, p) \/ ~Exists(f, q) THEN f
    ELSE CopyFile(f, q, BackupPath(q)).fs

\* FileWriteTool.run({ file_path, content, encoding, create_directories,
\* backup }) with a string content
FileWriteRun(f, p, content, encodingArg, createDirectories, backup, writable, fault) ==
    IF IsEmptyPath(p)
    THEN Ends(f, HandlerThrow(McpInvalidParams("file_path must be a non-empty string")))
    ELSE LET g == IF backup THEN CreateBackup(f, p) ELSE f IN
         TryCatch(WriteFileWithMetadata(g, p, content, EncodingOrDefault(encodingArg),
                                        createDirectories, writable, fault),
                  [operation |-> "file_write"],
                  FileWriteCodes)

FILE_OPERATIONS == {"copy", "move", "delete"}

DIRECTORY_OPERATIONS == {"create", "list", "delete", "exists"}

\* FileOperationsTool.run({ operation, source, destination, overwrite, force })
FileOperationsRun(f, operation, ps, pd, overwrite, force, fault) ==
    IF operation \notin FILE_OPERATIONS
    THEN Ends(f, HandlerThrow(McpInvalidParams("Invalid operation")))
    ELSE IF IsEmptyPath(ps)
    THEN Ends(f, HandlerThrow(McpInvalidParams("source must be a non-empty string")))
    ELSE IF operation \in {"copy", "move"} /\ IsEmptyPath(pd)
    THEN Ends(f, HandlerThrow(McpInvalidParams("destination is required")))
    ELSE TryCatch(CASE operation = "copy" -> CopyFileUtil(f, ps, pd, overwrite, fault)
                    [] operation = "move" -> MoveFileUtil(f, ps, pd, overwrite, fault)
                    [] OTHER -> DeleteFileUtil(f, ps, force, fault),
                  [requested_operation |-> operation],
                  FileOperationsCodes)

\* the recursive argument: a boolean, or "undefined" when absent
RecursiveArgs == {"undefined", "true", "false"}

\* recursive !== undefined ? recursive : <default>
RecursiveOr(recursiveArg, default) ==
    IF recursiveArg = "undefined" THEN default ELSE recursiveArg = "true"

\* DirectoryOperationsTool.run({ operation, path, recursive, detailed, force })
DirectoryOperationsRun(f, operation, p, recursiveArg, detailed, force, fault) ==
    IF operation \notin DIRECTORY_OPERATIONS
    THEN Ends(f, HandlerThrow(McpInvalidParams("Invalid operation")))
    ELSE IF IsEmptyPath(p)
    THEN Ends(f, HandlerThrow(McpInvalidParams("path must be a non-empty string")))
    ELSE LET ended ==
                 CASE operation = "create" ->
                          CreateDirectory(f, p, RecursiveOr(recursiveArg, TRUE), fault)
                   [] operation = "list" -> ListDirectory(f, p, detailed, fault)
                   [] operation = "delete" ->
                          DeleteDirectory(f, p, RecursiveOr(recursiveArg, FALSE),
                                          force, fault)
                   [] OTHER -> CheckDirectoryExists(f, p)
         IN TryCatch(ended,
                     IF operation = "list" /\ ended.ro.kind = "return"
                     THEN [requested_operation |-> operation,
                           summary |-> CreateListingSummary(ended.ro.result.items)]
                     ELSE [requested_operation |-> operation],
                     DirectoryOperationsCodes)

-----------------------------------------------------------------------------
(* Requests to the four tools *)

\* the path arguments of the requests
PathArgs ==
    { AbsPath(PathD), AbsPath(PathDF), AbsPath(PathG), AbsPath(PathX),
      [abs |-> FALSE, segs |-> << "d", "f" >>], EmptyString }

\* the destinations of copies and moves
DestinationArgs == { AbsPath(PathD), AbsPath(PathDF), AbsPath(PathG), EmptyString }

\* the contents of the files written while the directory handlers are at work
SmallContents == { Content(<< 97 >>, 0), Content(<< >>, 0) }

NoContent == Content(<< >>, 0)

\* the filesystem before the first request: a directory holding one file, and
\* a directory outside the home directory whose name has two dots in it
InitialFs ==
    [n \in Nodes |->
        CASE n = PathD -> DirNode
          [] n = PathDF -> FileNode(Data(<< 97, 97, 97 >>, 0))
          [] n = PathX -> DirNode
          [] OTHER -> NoNode]

FsRequest(tool, operation, p, pd, args, content, fault, before, ended) ==
    [tool |-> tool, operation |-> operation, path |-> p, destination |-> pd,
     args |-> args, content |-> content, fault |-> fault, before |-> before,
     wrote |-> NoOutcome, raw |-> ended.raw, ro |-> ended.ro,
     outcome |-> BaseToolExecute(ended.ro, MaxElapsed)]

NoArgs == [encoding |-> "undefined", recursive |-> "undefined", flag |-> FALSE]

NoFsReq ==
    [tool |-> "none", operation |-> "none", path |-> EmptyString,
     destination |-> EmptyString, args |-> NoArgs, content |-> NoContent,
     fault |-> "none", before |-> InitialFs, wrote |-> NoOutcome,
     raw |-> NoError, ro |-> NoRun,
     outcome |-> NoOutcome]

\* a file_read request
FileRead ==
    /\ fsReq = NoFsReq
    /\ \E p \in PathArgs, e \in {"undefined", "utf8", "utf16le"}, fault \in Faults :
          LET ended == FileReadRun(fs, p, e, fault) IN
          /\ fs' = ended.fs
          /\ fsReq' = FsRequest("file_read", "none", p, EmptyString,
                                [NoArgs EXCEPT !.encoding = e], NoContent,
                                fault, fs, ended)
    /\ UNCHANGED nonFsVars

\* a file_write request
FileWrite ==
    /\ fsReq = NoFsReq
    /\ \E p \in PathArgs, c \in SmallContents, createDirectories \in BOOLEAN,
          backup \in BOOLEAN, writable \in BOOLEAN, fault \in Faults :
          LET ended == FileWriteRun(fs, p, c, "undefined", createDirectories,
                                    backup, writable, fault) IN
          /\ backup => Normalized(p) = PathDF
          /\ fs' = ended.fs
          /\ fsReq' = FsRequest("file_write", "none", p, EmptyString,
                                [NoArgs EXCEPT !.flag = backup], c, fault, fs, ended)
    /\ UNCHANGED nonFsVars

\* a file_operations request
FileOperation ==
    /\ fsReq = NoFsReq
    /\ \E operation \in FILE_OPERATIONS \cup {"rename"}, ps \in PathArgs,
          pd \in DestinationArgs, flag \in BOOLEAN, fault \in Faults :
          LET ended == FileOperationsRun(fs, operation, ps, pd, flag, flag, fault) IN
          /\ operation = "delete" => pd = EmptyString
          /\ (operation = "move" /\ IsDirectory(fs, Normalized(ps))) =>
                Entries(fs, Normalized(ps)) = {}
          /\ fs' = ended.fs
          /\ fsReq' = FsRequest("file_operations", operation, ps, pd,
                                [NoArgs EXCEPT !.flag = flag], NoContent,
                                fault, fs, ended)
    /\ UNCHANGED nonFsVars

\* a directory_operations request
DirectoryOperation ==
    /\ fsReq = NoFsReq
    /\ \E operation \in DIRECTORY_OPERATIONS \cup {"rename"}, p \in PathArgs,
          recursiveArg \in RecursiveArgs, force \in BOOLEAN, fault \in Faults :
          LET ended == DirectoryOperationsRun(fs, operation, p, recursiveArg,
                                              TRUE, force, fault) IN
          /\ fs' = ended.fs
          /\ fsReq' = FsRequest("directory_operations", operation, p, EmptyString,
                                [NoArgs EXCEPT !.recursive = recursiveArg,
                                               !.flag = force],
                                NoContent, fault, fs, ended)
    /\ UNCHANGED nonFsVars

\* the response leaves the server
FsRespond ==
    /\ fsReq # NoFsReq
    /\ fsReq' = NoFsReq
    /\ UNCHANGED << fs, nonFsVars >>

-----------------------------------------------------------------------------
(* file_write followed by file_read of the same path *)

\* the code units of the written strings: a, g (no hex digit), e acute,
\* the euro sign, a high surrogate
ContentChars == {97, 103, 233, 8364, 55296}

RECURSIVE TextsOfLen(_)
TextsOfLen(n) ==
    IF n = 0 THEN { << >> }
    ELSE { << c >> \o t : c \in ContentChars, t \in TextsOfLen(n - 1) }

Texts == UNION { TextsOfLen(n) : n \in 0..MaxContentLen }

\* lengths of the run of x that follows the text: none, one between the read
\* and the write cap, one above the write cap
Fillers == {0, 60 * MiB, 101 * MiB}

Contents == { Content(t, k) : t \in Texts, k \in Fillers }

\* every surrogate of the string is half of a pair
RECURSIVE WellFormed(_)
WellFormed(s) ==
    IF s = << >> THEN TRUE
    ELSE IF IsHighSurrogate(s[1])
    THEN Len(s) >= 2 /\ IsLowSurrogate(s[2]) /\ WellFormed(Tail2(s))
    ELSE ~IsLowSurrogate(s[1]) /\ WellFormed(Tail(s))

\* file_write of a string to the file, by a caller about to read it back
WriteForReadBack ==
    /\ fsReq = NoFsReq
    /\ \E c \in Contents, e \in EncodingArgs :
          LET ended == FileWriteRun(fs, AbsPath(PathDF), c, e, FALSE, FALSE,
                                    TRUE, "none") IN
          /\ e = "base64" => c.filler = 0
          /\ fs' = ended.fs
          /\ fsReq' = FsRequest("file_write", "none", AbsPath(PathDF), EmptyString,
                                [NoArgs EXCEPT !.encoding = e], c, "none", fs, ended)
    /\ UNCHANGED nonFsVars

\* file_read of the path just written, with the encoding argument of the write
ReadBack ==
    /\ fsReq.tool = "file_write"
    /\ LET ended == FileReadRun(fs, fsReq.path, fsReq.args.encoding, "none") IN
       /\ fs' = ended.fs
       /\ fsReq' = [fsReq EXCEPT !.tool = "file_read",
                                 !.wrote = fsReq.outcome,
                                 !.before = fs,
                                 !.raw = ended.raw,
                                 !.ro = ended.ro,
                                 !.outcome = BaseToolExecute(ended.ro, MaxElapsed)]
    /\ UNCHANGED nonFsVars

\* the caller has both responses
RoundTripDone ==
    /\ fsReq.tool = "file_read"
    /\ fsReq' = NoFsReq
    /\ UNCHANGED << fs, nonFsVars >>

-----------------------------------------------------------------------------
(* ConfigManager, and execute_command beside it.  Strings are sequences of    *)
(* letters.                                                                   *)

Letters == {"r", "R", "m"}

\* String.prototype.toLowerCase, letter by letter
LowerLetter(x) == IF x = "R" THEN "r" ELSE IF x = "M" THEN "m" ELSE x

ToLowerCase(s) == [i \in 1..Len(s) |-> LowerLetter(s[i])]

\* s.includes(t): t occurs in s as a substring
Includes(s, t) ==
    \E k \in 0..(Len(s) - Len(t)) : \A i \in 1..Len(t) : s[k + i] = t[i]

RECURSIVE StringsOfLen(_)
StringsOfLen(n) ==
    IF n = 0 THEN { << >> }
    ELSE { << x >> \o s : x \in Letters, s \in StringsOfLen(n - 1) }

\* the command strings
Commands == UNION { StringsOfLen(n) : n \in 0..MaxCommandLen }

\* the lists a whitelist or a blacklist is taken from: empty, one pattern
\* (the empty pattern too), two patterns
PatternLists ==
    { << >>, << << >> >>, << << "r", "m" >> >>, << << "R", "M" >> >>,
      << << "m" >> >>, << << "m", "r" >> >>,
      << << "R" >>, << "m", "m" >> >>, << << "r", "r" >>, << "M" >> >> }

\* the lists set() and update() are called with
SetLists == { << >>, << << "r", "m" >> >> }

SecurityModes == {"standard", "strict"}

\* this.defaults, as far as isCommandAllowed reads them
Defaults ==
    [securityMode |-> "standard", commandWhitelist |-> << >>,
     commandBlacklist |-> << >>]

ConfigKeys == DOMAIN Defaults

\* an object with some of the keys of a full one
Restrict(full, ks) == [k \in ks |-> full[k]]

\* the user configuration files: any of the keys, with any value
UserConfigs ==
    { Restrict(full, ks) :
        full \in [securityMode : SecurityModes, commandWhitelist : PatternLists,
                  commandBlacklist : PatternLists],
        ks \in SUBSET ConfigKeys }

\* the objects update() is called with, and the keys and values of set()
Updates ==
    { Restrict(full, ks) :
        full \in [securityMode : SecurityModes, commandWhitelist : SetLists,
                  commandBlacklist : SetLists],
        ks \in SUBSET ConfigKeys }

\* The manager's two objects.  When aliased, this.config and this.defaults
\* are one object: a write through either is seen through both.
NoManager == [built |-> FALSE, defaults |-> Defaults, config |-> Defaults,
              aliased |-> FALSE]

\* new ConfigManager() without a readable configuration file: loadConfig
\* returns this.defaults itself
BuiltWithoutFile ==
    [built |-> TRUE, defaults |-> Defaults, config |-> Defaults, aliased |-> TRUE]

\* new ConfigManager() with a configuration file: { ...defaults, ...userConfig }
BuiltWithFile(userConfig) ==
    [built |-> TRUE, defaults |-> Defaults, config |-> Spread(Defaults, userConfig),
     aliased |-> FALSE]

\* set(key, value): this.config[key] = value
SetKey(m, key, value) ==
    IF m.aliased
    THEN [m EXCEPT !.config[key] = value, !.defaults[key] = value]
    ELSE [m EXCEPT !.config[key] = value]

\* update(updates): this.config = { ...this.config, ...updates }
UpdateKeys(m, updates) ==
    [m EXCEPT !.config = Spread(m.config, updates), !.aliased = FALSE]

\* reset(): this.config = this.defaults
ResetConfig(m) == [m EXCEPT !.config = m.defaults, !.aliased = TRUE]

\* commandWhitelist.some(pattern => ...) / commandBlacklist.some(...), with a
\* pattern taken as it is written
MatchesSomeAsWritten(command, patterns) ==
    \E i \in 1..Len(patterns) : Includes(ToLowerCase(command), patterns[i])

MatchesSome(command, patterns) ==
    \E i \in 1..Len(patterns) :
        Includes(ToLowerCase(command), ToLowerCase(patterns[i]))

\* isCommandAllowed(command)
IsCommandAllowed(config, command) ==
    IF config.securityMode = "strict"
    THEN IF Len(config.commandWhitelist) = 0 THEN FALSE
         ELSE MatchesSome(command, config.commandWhitelist)
    ELSE IF Len(config.commandBlacklist) > 0
         THEN ~MatchesSome(command, config.commandBlacklist)
         ELSE TRUE

\* ExecuteCommandTool.run reaches execAsync(command, execOptions): it does for
\* every non-empty command string
ReachesExec(command) == command # << >>

NoCmdReq == [kind |-> "none", command |-> << >>, allowed |-> FALSE, spawned |-> FALSE]

\* getConfig() for the first time: the singleton is built.  The manager's
\* methods are synchronous: none runs while a command is being answered.
GetConfig ==
    /\ ~cm.built
    /\ \/ cm' = BuiltWithoutFile
       \/ \E userConfig \in UserConfigs : cm' = BuiltWithFile(userConfig)
    /\ UNCHANGED << cmdReq, nonCfgVars >>

ConfigSet ==
    /\ cm.built
    /\ cmdReq = NoCmdReq
    /\ \E updates \in Updates : \E k \in DOMAIN updates :
          /\ DOMAIN updates = {k}
          /\ cm' = SetKey(cm, k, updates[k])
    /\ UNCHANGED << cmdReq, nonCfgVars >>

ConfigUpdate ==
    /\ cm.built
    /\ cmdReq = NoCmdReq
    /\ \E updates \in Updates : cm' = UpdateKeys(cm, updates)
    /\ UNCHANGED << cmdReq, nonCfgVars >>

ConfigReset ==
    /\ cm.built
    /\ cmdReq = NoCmdReq
    /\ cm' = ResetConfig(cm)
    /\ UNCHANGED << cmdReq, nonCfgVars >>

\* a caller asks the manager about a command
CheckCommand ==
    /\ cm.built
    /\ cmdReq = NoCmdReq
    /\ \E command \in Commands :
          cmdReq' = [kind |-> "check", command |-> command,
                     allowed |-> IsCommandAllowed(cm.config, command),
                     spawned |-> FALSE]
    /\ UNCHANGED << cm, nonCfgVars >>

\* an execute_command request while the manager holds a configuration
ExecuteUnderConfig ==
    /\ cm.built
    /\ cmdReq = NoCmdReq
    /\ \E command \in Commands :
          cmdReq' = [kind |-> "execute", command |-> command,
                     allowed |-> FALSE, spawned |-> ReachesExec(command)]
    /\ UNCHANGED << cm, nonCfgVars >>

\* the answer has been taken
CommandAnswered ==
    /\ cmdReq # NoCmdReq
    /\ cmdReq' = NoCmdReq
    /\ UNCHANGED << cm, nonCfgVars >>

-----------------------------------------------------------------------------
(* list_processes *)

\* constants.js, PROCESS_LIMITS
DEFAULT_LIMIT == 50

MAX_LIMIT == 500

\* the numbers of processes the enumeration command reports
ProcessCounts == {0, 1, 2, 3, 50, 51, 499, 500, 501, 600}

\* a line of `ps aux` after the header: its number of columns, its pid, the
\* text of its command column
PsLine(i) == [columns |-> 11, pid |-> i, name |-> IF i % 2 = 1 THEN "a" ELSE "b"]

ShortLine == [columns |-> 5, pid |-> 0, name |-> ""]

\* the output of the enumeration command: n processes, and possibly a line
\* that is too short to be one
PsOutput(n, short) ==
    (IF short THEN << ShortLine >> ELSE << >>) \o [i \in 1..n |-> PsLine(i)]

\* parseProcessList(stdout, false): lines of fewer than 11 columns are skipped
ParseProcessList(lines) ==
    LET Whole(l) == l.columns >= 11
        kept == SelectSeq(lines, Whole)
    IN  [i \in 1..Len(kept) |-> [pid |-> kept[i].pid, name |-> kept[i].name]]

\* the filter argument: absent, a pattern that is one letter, or a text that
\* is no regular expression
FilterArgs == {"undefined", "a", "b", "("}

\* the limit argument
LimitArgs ==
    { Undefined, Null, Number(0), Number(-1), Number(-5), Number(-600),
      Number(1), Number(2), Number(50), Number(499), Number(500), Number(501),
      Number(1000) }

\* const { limit = PROCESS_LIMITS.DEFAULT_LIMIT } = args: the default stands
\* in for undefined only
LimitOrDefault(limitArg) ==
    IF limitArg.type = "undefined" THEN Number(DEFAULT_LIMIT) ELSE limitArg

\* Math.min(limit, MAX_LIMIT); null counts as 0
MinWithMax(limit) ==
    Min(IF limit.type = "null" THEN 0 ELSE limit.value, MAX_LIMIT)

\* Array.prototype.slice(0, end): a negative end counts from the end of the
\* array
SliceTo(s, end) ==
    LET last == IF end < 0 THEN (IF Len(s) + end < 0 THEN 0 ELSE Len(s) + end)
                ELSE Min(end, Len(s))
    IN  SubSeq(s, 1, last)

RegExpSyntaxError ==
    [class |-> "SyntaxError", code |-> "none",
     message |-> "Invalid regular expression", stdout |-> "", stderr |-> "",
     signal |-> "none", killed |-> FALSE]

\* ListProcessesTool.run({ filter, limit }), given how execAsync ended
ListProcessesRun(filterArg, limitArg, execFails, lines) ==
    LET parsed   == ParseProcessList(lines)
        Named(p) == p.name = filterArg
        filtered == IF filterArg = "undefined" THEN parsed
                    ELSE SelectSeq(parsed, Named)
        sliced   == SliceTo(filtered, MinWithMax(LimitOrDefault(limitArg)))
    IN
    IF execFails
    THEN HandlerThrow(ExecError("Command failed", "", "", "1", "none", FALSE))
    ELSE IF filterArg = "(" THEN HandlerThrow(RegExpSyntaxError)
    ELSE HandlerReturn([process_count |-> Len(sliced), processes |-> sliced])

NoProcReq ==
    [asked |-> FALSE, filter |-> "undefined", limit |-> Undefined, reported |-> 0,
     outcome |-> NoOutcome]

\* a list_processes request
ListProcesses ==
    /\ procReq = NoProcReq
    /\ \E filterArg \in FilterArgs, limitArg \in LimitArgs, n \in ProcessCounts,
          short \in BOOLEAN, execFails \in BOOLEAN :
          /\ execFails => n = 0 /\ ~short
          /\ procReq' =
                [asked |-> TRUE, filter |-> filterArg, limit |-> limitArg,
                 reported |-> n,
                 outcome |-> BaseToolExecute(
                     ListProcessesRun(filterArg, limitArg, execFails,
                                      PsOutput(n, short)),
                     MaxElapsed)]
    /\ UNCHANGED nonProcVars

\* the response leaves the server
ProcessesListed ==
    /\ procReq # NoProcReq
    /\ procReq' = NoProcReq
    /\ UNCHANGED nonProcVars

-----------------------------------------------------------------------------
(* The argument checks of the handlers, and the calls each makes before a    *)
(* check rejects the request                                                  *)

\* what a caller can put in the place of an argument: nothing, null, the
\* empty string, a string that is a valid value, the number 0, a number that
\* is a valid value where a number is expected
ArgValues == {"undefined", "null", "empty_string", "string", "zero", "number"}

\* !value
Falsy(v) == v \in {"undefined", "null", "empty_string", "zero"}

\* typeof value
TypeOf(v) ==
    CASE v = "undefined" -> "undefined"
      [] v = "null" -> "object"
      [] v \in {"empty_string", "string"} -> "string"
      [] OTHER -> "number"

\* !x || typeof x !== 'string'
NotNonEmptyString(v) == Falsy(v) \/ TypeOf(v) # "string"

\* the handlers that have required arguments, with the first and the second
\* of them ("none": there is no second)
RequiredArgs ==
    [execute_command      |-> << "command", "none" >>,
     execute_script       |-> << "script_content", "interpreter" >>,
     kill_process         |-> << "pid", "none" >>,
     file_read            |-> << "file_path", "none" >>,
     file_write           |-> << "file_path", "content" >>,
     file_operations      |-> << "operation", "source" >>,
     directory_operations |-> << "operation", "path" >>]

ValidatingTools == DOMAIN RequiredArgs

\* how the handler went: the error it threw ("none": it got past its checks
\* and made its first call), and the calls it had made by then
Checked(threw, io) == [threw |-> threw, io |-> io]

\* const { ... } = args with args undefined
DestructuringFails == Checked("TypeError", << >>)

\* ExecuteCommandTool.run
CheckExecuteCommand(command) ==
    IF NotNonEmptyString(command) THEN Checked("InvalidParams", << >>)
    ELSE Checked("none", << "execAsync" >>)

\* ExecuteScriptTool.run; the interpreter is looked up after the script has
\* been written, and the finally block unlinks the file
CheckExecuteScript(scriptContent, interpreter) ==
    IF NotNonEmptyString(scriptContent) THEN Checked("InvalidParams", << >>)
    ELSE IF interpreter # "string"
    THEN Checked("InvalidParams", << "mkdtempSync", "writeFileSync", "unlinkSync" >>)
    ELSE Checked("none", << "mkdtempSync", "writeFileSync", "execAsync" >>)

\* KillProcessTool.run: !pid || typeof pid !== 'number' || pid < 1
CheckKillProcess(pid) ==
    IF Falsy(pid) \/ TypeOf(pid) # "number" THEN Checked("InvalidParams", << >>)
    ELSE Checked("none", << "execAsync" >>)

\* FileReadTool.run
CheckFileRead(filePath) ==
    IF NotNonEmptyString(filePath) THEN Checked("InvalidParams", << >>)
    ELSE Checked("none", << "existsSync" >>)

\* FileWriteTool.run: content === undefined || content === null is all that
\* is asked of the content
CheckFileWrite(filePath, content) ==
    IF NotNonEmptyString(filePath) THEN Checked("InvalidParams", << >>)
    ELSE IF content \in {"undefined", "null"} THEN Checked("InvalidParams", << >>)
    ELSE Checked("none", << "existsSync" >>)

\* FileOperationsTool.run / DirectoryOperationsTool.run:
\* !operation || !Object.values(OPERATIONS).includes(operation), then the path
CheckOperation(operation, path) ==
    IF Falsy(operation) \/ operation # "string" THEN Checked("InvalidParams", << >>)
    ELSE IF NotNonEmptyString(path) THEN Checked("InvalidParams", << >>)
    ELSE Checked("none", << "existsSync" >>)

\* tool.run(args) up to its first call past the checks
CheckArgs(tool, hasArgs, first, second) ==
    IF ~hasArgs THEN DestructuringFails
    ELSE CASE tool = "execute_command" -> CheckExecuteCommand(first)
           [] tool = "execute_script" -> CheckExecuteScript(first, second)
           [] tool = "kill_process" -> CheckKillProcess(first)
           [] tool = "file_read" -> CheckFileRead(first)
           [] tool = "file_write" -> CheckFileWrite(first, second)
           [] OTHER -> CheckOperation(first, second)

\* what BaseTool.execute makes of it: an McpError is raised to the caller,
\* any other error becomes a failure envelope
Answer(checked) ==
    CASE checked.threw = "InvalidParams" -> "protocol_error"
      [] checked.threw = "TypeError" -> "failure_envelope"
      [] OTHER -> "running"

NoValReq ==
    [asked |-> FALSE, tool |-> "none", hasArgs |-> TRUE, first |-> "undefined",
     second |-> "undefined", io |-> << >>, answer |-> "none"]

\* a tools/call request with any arguments, or with none
CallWithArgs ==
    /\ valReq = NoValReq
    /\ \E tool \in ValidatingTools, hasArgs \in BOOLEAN, first \in ArgValues,
          second \in ArgValues :
          LET checked == CheckArgs(tool, hasArgs, first, second) IN
          /\ ~hasArgs => first = "undefined" /\ second = "undefined"
          /\ RequiredArgs[tool][2] = "none" => second = "undefined"
          /\ valReq' = [asked |-> TRUE, tool |-> tool, hasArgs |-> hasArgs,
                        first |-> first, second |-> second,
                        io |-> checked.io, answer |-> Answer(checked)]
    /\ UNCHANGED nonValVars

\* the request is answered, or goes on to run
CallChecked ==
    /\ valReq # NoValReq
    /\ valReq' = NoValReq
    /\ UNCHANGED nonValVars

-----------------------------------------------------------------------------
(* kill_process *)

TIMEOUT_KILL == 5000

\* the pid argument of a request: absent, null, a string of digits, or a
\* number, kept as twice its value so that 0.5 and 1.5 can be told from the
\* integers
Pid(type, halves) == [type |-> type, halves |-> halves]

PidArgs ==
    { Pid("undefined", 0), Pid("null", 0), Pid("string", 2468),
      Pid("number", -2), Pid("number", 0), Pid("number", 1), Pid("number", 2),
      Pid("number", 3), Pid("number", 2468) }

\* !pid || typeof pid !== 'number' || pid < 1
PidRejected(pid) ==
    \/ pid.type \in {"undefined", "null"}
    \/ pid.type = "number" /\ pid.halves = 0
    \/ pid.type # "number"
    \/ pid.halves < 2

\* the enum of the input schema
SchemaSignals == {"SIGTERM", "SIGKILL", "SIGINT", "SIGHUP", "SIGQUIT"}

\* the signal argument: absent, a name of the schema, a signal name outside
\* it, a string that names no signal
SignalArgs == {"undefined"} \cup SchemaSignals \cup {"SIGUSR1", "BOGUS"}

\* the names kill(1) accepts
KillSignals == SchemaSignals \cup {"SIGUSR1"}

\* the force argument: absent, or a boolean
ForceArgs == {"undefined", "true", "false"}

\* const { pid, force = false, signal = 'SIGTERM' } = args
ForceOrDefault(forceArg) == forceArg = "true"

SignalOrDefault(signalArg) == IF signalArg = "undefined" THEN "SIGTERM" ELSE signalArg

\* the command line handed to execAsync, with its options
NoCommand ==
    [program |-> "none", forceful |-> FALSE, signal |-> "none",
     pid |-> Pid("undefined", 0), timeout |-> 0]

\* isWindows() ? (force ? `taskkill /F /PID ${pid}` : `taskkill /PID ${pid}`)
\*             : `kill -${force ? 'SIGKILL' : signal} ${pid}`
KillCommand(pid, force, signal, windows) ==
    IF windows
    THEN [program |-> "taskkill", forceful |-> force, signal |-> "none",
          pid |-> pid, timeout |-> TIMEOUT_KILL]
    ELSE [program |-> "kill", forceful |-> FALSE,
          signal |-> IF force THEN "SIGKILL" ELSE signal,
          pid |-> pid, timeout |-> TIMEOUT_KILL]

\* the signal run() reports: force ? 'SIGKILL' : signal
ReportedSignal(force, signal) == IF force THEN "SIGKILL" ELSE signal

\* the command cannot succeed: kill(1) knows no such signal, or takes no
\* fraction for a process id
CommandRefused(command) ==
    \/ command.program = "kill" /\ command.signal \notin KillSignals
    \/ command.pid.halves % 2 # 0

\* KillProcessTool.run({ pid, force, signal }); processGone: the command
\* exits nonzero because no such process exists or it may not be signalled
KillProcessRun(pid, forceArg, signalArg, windows, processGone) ==
    LET force   == ForceOrDefault(forceArg)
        signal  == SignalOrDefault(signalArg)
        command == KillCommand(pid, force, signal, windows)
    IN
    IF PidRejected(pid)
    THEN [command |-> NoCommand,
          ro |-> HandlerThrow(McpInvalidParams("PID must be a positive number"))]
    ELSE IF CommandRefused(command) \/ processGone
    THEN [command |-> command,
          ro |-> HandlerThrow(ExecError("Command failed", "", "err", "1", "none", FALSE))]
    ELSE [command |-> command,
          ro |-> HandlerReturn([pid |-> pid, signal |-> ReportedSignal(force, signal),
                                stdout |-> "", stderr |-> ""])]

NoKillReq ==
    [asked |-> FALSE, pid |-> Pid("undefined", 0), force |-> "undefined",
     signal |-> "undefined", windows |-> FALSE, command |-> NoCommand,
     outcome |-> NoOutcome]

\* a kill_process request
KillProcess ==
    /\ killReq = NoKillReq
    /\ \E pid \in PidArgs, forceArg \in ForceArgs, signalArg \in SignalArgs,
          windows \in BOOLEAN, processGone \in BOOLEAN :
          LET ended == KillProcessRun(pid, forceArg, signalArg, windows, processGone) IN
          killReq' =
              [asked |-> TRUE, pid |-> pid, force |-> forceArg, signal |-> signalArg,
               windows |-> windows, command |-> ended.command,
               outcome |-> BaseToolExecute(ended.ro, MaxElapsed)]
    /\ UNCHANGED nonKillVars

\* the response leaves the server
ProcessKilled ==
    /\ killReq # NoKillReq
    /\ killReq' = NoKillReq
    /\ UNCHANGED nonKillVars

-----------------------------------------------------------------------------
(* Specifications *)

\* the server after construction: new ToolRegistry(), no request yet
Init ==
    /\ tools = RegisterDefaultTools(<< >>, 0)
    /\ clock = Len(DefaultToolNames)
    /\ firstRegistered =
          [n \in AllNames |->
              IF \E i \in 1..Len(DefaultToolNames) : DefaultToolNames[i] = n
              THEN CHOOSE i \in 1..Len(DefaultToolNames) : DefaultToolNames[i] = n
              ELSE 0]
    /\ resets = 0
    /\ lastOp = RegOp("new", NoTool, FALSE)
    /\ call = NoCall
    /\ fileReq = NoFileReq
    /\ inv = [i \in Invocations |-> IdleInvocation]
    /\ tmpDirs = {}
    /\ scriptFiles = {}
    /\ started = 0
    /\ optReq = NoOptReq
    /\ listing = NoListing
    /\ fs = InitialFs
    /\ fsReq = NoFsReq
    /\ cm = NoManager
    /\ cmdReq = NoCmdReq
    /\ procReq = NoProcReq
    /\ valReq = NoValReq
    /\ killReq = NoKillReq

\* the registry and the dispatch wrapper
Next ==
    \/ RegisterTool
    \/ AddCustomTool
    \/ Unregister
    \/ ClearTools
    \/ Reset
    \/ CallTool

Spec == Init /\ [][Next]_vars

\* the file and directory handlers
GuardNext ==
    \/ OnePathRequest
    \/ TwoPathRequest
    \/ FileRespond

SpecGuard == Init /\ [][GuardNext]_vars

\* the command and script handlers, any number of them in flight
ExecNext ==
    \E i \in Invocations :
        \/ StartCommand(i)
        \/ StartScript(i)
        \/ ChildEnds(i)
        \/ TimerFires(i)
        \/ OutputOverflows(i)
        \/ KilledChildCloses(i)
        \/ SurvivorEnds(i)
        \/ Respond(i)

SpecExec == Init /\ [][ExecNext]_vars

\* A child dying of the kill signal closes and Node runs exec()'s callback; a
\* finished invocation is answered.  Nothing makes a running child end.
FairSpecExec ==
    /\ SpecExec
    /\ \A i \in Invocations : WF_vars(KilledChildCloses(i))
    /\ \A i \in Invocations : WF_vars(Respond(i))

\* the options of the spawn primitive, for every timeout argument
OptionsNext ==
    \/ BuildOptions
    \/ OptionsUsed

SpecOptions == Init /\ [][OptionsNext]_vars

\* detailed listings and their summaries
ListNext ==
    \/ ListDetailed
    \/ ListReturned

SpecListing == Init /\ [][ListNext]_vars

\* the file and directory tools on one filesystem
FsNext ==
    \/ FileRead
    \/ FileWrite
    \/ FileOperation
    \/ DirectoryOperation
    \/ FsRespond

SpecFs == Init /\ [][FsNext]_vars

\* a caller that writes a file and reads it back
RoundTripNext ==
    \/ WriteForReadBack
    \/ ReadBack
    \/ RoundTripDone

SpecRoundTrip == Init /\ [][RoundTripNext]_vars

\* the configuration manager and the commands put to it
ConfigNext ==
    \/ GetConfig
    \/ ConfigSet
    \/ ConfigUpdate
    \/ ConfigReset
    \/ CheckCommand
    \/ ExecuteUnderConfig
    \/ CommandAnswered

SpecConfig == Init /\ [][ConfigNext]_vars

\* list_processes requests
ProcListNext ==
    \/ ListProcesses
    \/ ProcessesListed

SpecProcList == Init /\ [][ProcListNext]_vars

\* requests with good and bad arguments
ValidateNext ==
    \/ CallWithArgs
    \/ CallChecked

SpecValidate == Init /\ [][ValidateNext]_vars

\* kill_process requests
KillNext ==
    \/ KillProcess
    \/ ProcessKilled

SpecKill == Init /\ [][KillNext]_vars

-----------------------------------------------------------------------------
(* Claims about the dispatch wrapper and the registry (checked under Spec) *)

\* the last request reached a tool's execute(): BaseTool.execute ran
Dispatched == lastOp.op = "execute" /\ call.invoked # NoTool

\* C1: BaseTool.execute ends in exactly one of three ways: a success envelope
\* (success = true) when run() returned normally, the very same error raised
\* again when run() raised an McpError, a failure envelope (success = false,
\* error = the error's message) when run() raised any other error; it never
\* raises a non-McpError and never turns an McpError into an envelope.
C1_ExecuteEndsOneOfThreeWays ==
    Dispatched =>
        /\ call.run.kind = "return" =>
              /\ call.outcome.kind = "returned"
              /\ call.outcome.envelope["success"] = TRUE
        /\ (call.run.kind = "throw" /\ call.run.error.class = "McpError") =>
              /\ call.outcome.kind = "raised"
              /\ call.outcome.error = call.run.error
        /\ (call.run.kind = "throw" /\ call.run.error.class # "McpError") =>
              /\ call.outcome.kind = "returned"
              /\ call.outcome.envelope["success"] = FALSE
              /\ call.outcome.envelope["error"] = call.run.error.message
        /\ call.outcome.kind = "raised" => call.outcome.error.class = "McpError"

\* C2: whenever run() returns normally with result r, the envelope has
\* success = true and execution_time_ms = the elapsed time the wrapper
\* measured, also when r has a key named success or execution_time_ms.
C2_SuccessEnvelopeStamped ==
    (Dispatched /\ call.run.kind = "return") =>
        /\ call.outcome.envelope["success"] = TRUE
        /\ call.outcome.envelope["execution_time_ms"] = call.elapsed

\* C3: ToolRegistry.execute(name, args) raises McpError MethodNotFound and
\* invokes no handler when name is not registered; when name is registered it
\* invokes execute(args) of exactly the tool stored under that name and
\* returns its outcome.
C3_ExecuteDispatchesToStoredTool ==
    lastOp.op = "execute" =>
        /\ ~Has(call.name) =>
              /\ call.outcome.kind = "raised"
              /\ call.outcome.error.class = "McpError"
              /\ call.outcome.error.code = "MethodNotFound"
              /\ call.invoked = NoTool
              /\ call.run = NoRun
        /\ Has(call.name) =>
              /\ call.invoked = Get(call.name)
              /\ call.run # NoRun
              /\ call.outcome = BaseToolExecute(call.run, call.elapsed)

\* C4: after any sequence of calls that ends with reset(), the registry holds
\* exactly the nine built-in tool names, get(name) returns a tool for each,
\* size() is 9, and list() has exactly one descriptor per name, no duplicates
\* and no custom tool.
C4_ResetRestoresBuiltins ==
    lastOp.op = "reset" =>
        /\ MapKeys(tools) = DefaultNameSet
        /\ \A n \in DefaultNameSet : Get(n) # NoTool /\ Get(n).name = n
        /\ Size = 9
        /\ Len(List) = 9
        /\ \A i, j \in 1..Len(List) : i # j => List[i].name # List[j].name
        /\ \A i \in 1..Len(List) : List[i].name \in DefaultNameSet
        /\ \A i \in 1..Len(tools) : tools[i].value.builtin

\* C4 witness: a reset() that followed caller registrations and an earlier reset()
C4_Witness ==
    /\ lastOp.op = "reset"
    /\ resets = 2
    /\ CallerRegistrations = MaxRegisterCalls

\* list() has one descriptor per registered name, and get() and list() yield
\* the tool registered last under each name
OneDescriptorPerName ==
    /\ Len(List) = Cardinality(MapKeys(tools))
    /\ Size = Cardinality(MapKeys(tools))
    /\ \A i \in 1..Len(List) : List[i].name = tools[i].key
    /\ \A i \in 1..Len(tools) : Get(tools[i].key) = tools[i].value
    /\ (lastOp.op \in {"register", "addCustomTool"} /\ ~lastOp.threw) =>
          Get(lastOp.tool.name) = lastOp.tool

\* C5 (as stated): list() returns one descriptor per registered name, the
\* later tool replacing the earlier one, and the descriptors appear in the
\* order in which the tools they describe were registered.
C5_ListInToolRegistrationOrder ==
    /\ OneDescriptorPerName
    /\ \A i, j \in 1..Len(tools) :
          i < j => tools[i].value.inst < tools[j].value.inst

\* C5 (amended): list() returns one descriptor per registered name, the later
\* tool replacing the earlier one in the earlier one's place, and the
\* descriptors appear in the order in which their names entered the registry
\* (first registration since the name was last removed).
C5_ListInNameRegistrationOrder ==
    /\ OneDescriptorPerName
    /\ \A i \in 1..Len(tools) : firstRegistered[tools[i].key] > 0
    /\ \A i, j \in 1..Len(tools) :
          i < j => firstRegistered[tools[i].key] < firstRegistered[tools[j].key]

\* C5 witness: a name was registered a second time, and its later tool stands
\* in list() before a tool that was registered earlier
C5_Witness ==
    /\ lastOp.op = "register"
    /\ ~lastOp.threw
    /\ \E i, j \in 1..Len(tools) :
          /\ i < j
          /\ tools[i].value = lastOp.tool
          /\ tools[i].value.inst > tools[j].value.inst

\* C6: register(tool) throws and leaves the registry unchanged whenever
\* tool.name is empty or tool.execute is not callable.
C6_RegisterRejectsNonCallable ==
    (lastOp.op = "register"
        /\ (lastOp.tool.name = "" \/ ~IsCallable(lastOp.tool.execute))) =>
        /\ lastOp.threw
        /\ \A i \in 1..Len(tools) : tools[i].value # lastOp.tool

-----------------------------------------------------------------------------
(* Claims about the path guard (checked under SpecGuard) *)

\* the path string has a parent-directory segment
HasParentSegment(p) == \E i \in 1..Len(p.segs) : p.segs[i] = ".."

\* the resolved path is the home directory or lies below it
UnderHome(q) == Len(q) >= Len(HomeDir) /\ SubSeq(q, 1, Len(HomeDir)) = HomeDir

\* C7: if a path argument contains a ".." segment and its resolved absolute
\* form is not under the home directory, the handler rejects the request and
\* performs no filesystem call.
C7_TraversalRejectedBeforeFs ==
    \A i \in 1..Len(fileReq.paths) :
        (HasParentSegment(fileReq.paths[i])
            /\ ~UnderHome(Resolve(fileReq.cwd, fileReq.paths[i]))) =>
            /\ fileReq.outcome = "rejected"
            /\ fileReq.fsCalls = << >>

-----------------------------------------------------------------------------
(* Claims about execute_script's temporary file and about timeouts *)

\* finished execute_script invocations whose writeFileSync returned
WroteAndDone(i) ==
    /\ inv[i].pc = "done"
    /\ inv[i].tool = "execute_script"
    /\ inv[i].wrote

\* a removal failure leaves the outcome what the try block made it: a value
\* returned by run() is answered with a success envelope
OutcomeKept(i) ==
    inv[i].settled.kind = "return" =>
        /\ inv[i].outcome.kind = "returned"
        /\ inv[i].outcome.envelope.success = TRUE

\* C8, as stated: once an execute_script invocation that wrote its script file
\* has completed, removal of the file was attempted, the file no longer
\* exists, and a failed removal did not change the outcome.
C8_ScriptFileGoneOnCompletion ==
    \A i \in Invocations :
        WroteAndDone(i) =>
            /\ inv[i].unlinkAttempted
            /\ inv[i].tempFile \notin scriptFiles
            /\ OutcomeKept(i)

\* C8, amended: once an execute_script invocation that wrote its script file
\* has completed, removal of the file was attempted on whatever path the
\* invocation took; the file no longer exists unless that removal itself
\* failed; and a failed removal did not change the outcome.
C8_ScriptFileRemovalAttempted ==
    \A i \in Invocations :
        WroteAndDone(i) =>
            /\ inv[i].unlinkAttempted
            /\ (~inv[i].unlinkFailed) => inv[i].tempFile \notin scriptFiles
            /\ OutcomeKept(i)

\* a script that timed out, was killed, and whose file was then removed
C8_Witness ==
    \E i \in Invocations :
        /\ WroteAndDone(i)
        /\ inv[i].why = "timeout"
        /\ inv[i].settled.kind = "throw"
        /\ inv[i].unlinkAttempted
        /\ ~inv[i].unlinkFailed
        /\ inv[i].tempFile \notin scriptFiles

\* C9: an execute_script call with an interpreter outside the table ends in
\* an InvalidParams protocol error, and the invocation has then neither
\* created a temporary directory nor written a script file.
C9_UnsupportedInterpreterFailsBeforeFiles ==
    \A i \in Invocations :
        ( /\ inv[i].pc = "done"
          /\ inv[i].tool = "execute_script"
          /\ ~HasCommandBuilder(inv[i].interpreter) ) =>
            /\ inv[i].outcome.kind = "raised"
            /\ inv[i].outcome.error.code = "InvalidParams"
            /\ inv[i].tempDir = 0
            /\ ~inv[i].wrote

\* the timeout of invocation i expired while its child was running
TimeoutExpired(i) ==
    /\ inv[i].pc = "running"
    /\ inv[i].why = "timeout"

\* invocation i resolved to a failure envelope flagged as a timeout, its
\* child gone
TimeoutFailure(i) ==
    /\ inv[i].pc = "done"
    /\ inv[i].child = "closed"
    /\ inv[i].outcome.kind = "returned"
    /\ inv[i].outcome.envelope.success = FALSE
    /\ "timeout" \in DOMAIN inv[i].outcome.envelope
    /\ inv[i].outcome.envelope.timeout = TRUE

\* C10: when the timeout of an execute_command or execute_script invocation
\* expires while its process runs, the invocation eventually resolves to a
\* failure envelope with success=false and timeout=true, and an invocation
\* whose timeout expired never resolves to anything else.
C10_TimeoutResolvesToFailure ==
    /\ \A i \in Invocations : TimeoutExpired(i) ~> TimeoutFailure(i)
    /\ [](\A i \in Invocations :
            (inv[i].pc = "done" /\ inv[i].why = "timeout") => TimeoutFailure(i))

-----------------------------------------------------------------------------
(* Claims about the spawn options *)

\* C11: for every timeout argument of execute_command or execute_script the
\* timeout in the options handed to the spawn primitive lies between 1000 and
\* 300000.
C11_TimeoutOptionClamped ==
    optReq # NoOptReq =>
        /\ 1000 <= optReq.options.timeout
        /\ optReq.options.timeout <= MAX_TIMEOUT

-----------------------------------------------------------------------------
(* Claims about the listing summary *)

RECURSIVE SumOfFileSizes(_)
SumOfFileSizes(items) ==
    IF items = << >> THEN 0
    ELSE (IF Head(items).shape = "stats" /\ Head(items).kind = "file"
          THEN Head(items).size ELSE 0) + SumOfFileSizes(Tail(items))

FileItems(items) ==
    { i \in 1..Len(items) : items[i].shape = "stats" /\ items[i].kind = "file" }

\* C15: for every detailed listing, summary.total_size is the sum of the sizes
\* of the regular files listed, and when at least one regular file is listed
\* summary.largest_file is not null and names a listed file of the largest
\* regular-file size.
C15_SummaryTotalsAndLargest ==
    listing.asked =>
        /\ listing.summary.total_size = SumOfFileSizes(listing.items)
        /\ FileItems(listing.items) # {} =>
              /\ ~listing.summary.largest_file.null
              /\ \E i \in FileItems(listing.items) :
                    /\ listing.items[i].name = listing.summary.largest_file.name
                    /\ listing.items[i].size = listing.summary.largest_file.size
              /\ \A i \in FileItems(listing.items) :
                    listing.items[i].size <= listing.summary.largest_file.size

-----------------------------------------------------------------------------
(* Claims about writing a file and reading it back *)

\* the read in hand follows a successful write of fsReq.content to the same
\* path with the same encoding argument
ReadAfterWrite ==
    /\ fsReq.tool = "file_read"
    /\ fsReq.wrote.kind = "returned"
    /\ fsReq.wrote.envelope.success

\* the read returned the content written, and its length
ReadGaveBack ==
    /\ fsReq.outcome.kind = "returned"
    /\ fsReq.outcome.envelope.success
    /\ fsReq.outcome.envelope.content = fsReq.content
    /\ fsReq.outcome.envelope.content_length = ContentLength(fsReq.content)

\* C12: after a successful file_write of a string C to an accepted path P,
\* file_read of P with the same encoding returns content exactly C and
\* content_length equal to the length of C.
C12_WriteReadRoundTrip == ReadAfterWrite => ReadGaveBack

AllBelow(s, n) == \A i \in 1..Len(s) : s[i] < n

\* the strings an encoding stores without loss, within the read cap
StoredWithoutLoss(encodingArg, c) ==
    LET encoding == EncodingOrDefault(encodingArg) IN
    /\ ByteLength(encoding, c) <= MAX_READ_SIZE
    /\ \/ encoding \in {"utf8", "utf-8"} /\ WellFormed(c.text)
       \/ encoding \in {"latin1", "binary"} /\ AllBelow(c.text, 256)
       \/ encoding = "ascii" /\ AllBelow(c.text, 128)

\* C12, amended: the round trip returns C and its length when the encoding is
\* utf8 or utf-8 and C is well-formed, or latin1 or binary and every code unit
\* of C is below 256, or ascii and every code unit is below 128, and the
\* encoded C is no longer than the read cap.
C12_RoundTripOfStoredStrings ==
    ReadAfterWrite /\ StoredWithoutLoss(fsReq.args.encoding, fsReq.content)
        => ReadGaveBack

\* a string with a two-byte and a three-byte character, written and read back
\* with the default encoding
C12_Witness ==
    /\ ReadAfterWrite
    /\ fsReq.args.encoding = "undefined"
    /\ fsReq.content = Content(<< 233, 8364 >>, 0)
    /\ ReadGaveBack

-----------------------------------------------------------------------------
(* Claims about the file and directory tools *)

\* the request in hand is a directory_operations request for one operation
DirectoryRequest(operation) ==
    /\ fsReq.tool = "directory_operations"
    /\ fsReq.operation = operation

\* the path of the request in hand, resolved
RequestPath == Normalized(fsReq.path)

Succeeded(outcome) == outcome.kind = "returned" /\ outcome.envelope.success

Failed(outcome) ==
    \/ outcome.kind = "raised"
    \/ outcome.kind = "returned" /\ ~outcome.envelope.success

\* C13: directory_operations create on a path that exists as a directory
\* never fails, reports created=false and existed=true, and leaves the
\* filesystem as it was; on a path that exists as a non-directory it fails and
\* changes nothing.
C13_CreateIsIdempotent ==
    DirectoryRequest("create") /\ ~IsEmptyPath(fsReq.path) =>
        /\ IsDirectory(fsReq.before, RequestPath) =>
              /\ Succeeded(fsReq.outcome)
              /\ ~fsReq.outcome.envelope.created
              /\ fsReq.outcome.envelope.existed
              /\ fs = fsReq.before
        /\ IsFile(fsReq.before, RequestPath) =>
              /\ Failed(fsReq.outcome)
              /\ fs = fsReq.before

\* the same, for the paths the guard lets through
C13_CreateIsIdempotentPastGuard ==
    ~GuardThrows(ServerCwd, fsReq.path) => C13_CreateIsIdempotent

\* C14: directory_operations delete of an existing non-empty directory, when
\* recursive is not true, fails with the NotEmpty kind and removes nothing;
\* with recursive=true it succeeds and neither the directory nor anything
\* under it exists afterwards.
C14_DeleteNonEmptyDirectory ==
    /\ DirectoryRequest("delete")
    /\ fsReq.fault = "none"
    /\ ~GuardThrows(ServerCwd, fsReq.path)
    /\ IsDirectory(fsReq.before, RequestPath)
    /\ Entries(fsReq.before, RequestPath) # {}
    => IF fsReq.args.recursive = "true"
       THEN /\ Succeeded(fsReq.outcome)
            /\ \A n \in Subtree(RequestPath) : ~Exists(fs, n)
       ELSE /\ Failed(fsReq.outcome)
            /\ fsReq.ro.error.message = "Directory not empty"
            /\ fs = fsReq.before

\* the halves of C14 the code keeps: nothing is removed without recursive,
\* everything with it
C14_DeleteRemovesAllOrNothing ==
    /\ DirectoryRequest("delete")
    /\ fsReq.fault = "none"
    /\ ~GuardThrows(ServerCwd, fsReq.path)
    /\ IsDirectory(fsReq.before, RequestPath)
    /\ Entries(fsReq.before, RequestPath) # {}
    => IF fsReq.args.recursive = "true"
       THEN /\ Succeeded(fsReq.outcome)
            /\ \A n \in Subtree(RequestPath) : ~Exists(fs, n)
       ELSE /\ Failed(fsReq.outcome)
            /\ fs = fsReq.before

\* error codes of the operating system and of Node's fs module
OsCodes ==
    {"ENOENT", "EACCES", "EISDIR", "ENOTDIR", "EEXIST", "ENOTEMPTY", "ENOSPC",
     "EXDEV", "EMFILE", "ERR_FS_EISDIR"}

\* C18: every failure a filesystem primitive raises while one of the four
\* tools is operating is returned as a failure envelope (success=false with a
\* message), never raised as a protocol error.
C18_OsFailuresAreEnvelopes ==
    fsReq.raw.code \in OsCodes =>
        /\ fsReq.outcome.kind = "returned"
        /\ ~fsReq.outcome.envelope.success
        /\ fsReq.outcome.envelope.error # ""

\* the same when the environment adds no failure of its own
C18_OsFailuresAreEnvelopesNoFault ==
    fsReq.fault = "none" => C18_OsFailuresAreEnvelopes

-----------------------------------------------------------------------------
(* Claims about the configured security mode *)

\* two letters that differ in case at most
SameLetter(x, y) == x = y \/ {x, y} = {"r", "R"} \/ {x, y} = {"m", "M"}

\* the command contains the pattern, case disregarded
ContainsIgnoringCase(command, pattern) ==
    \E k \in 0..(Len(command) - Len(pattern)) :
        \A i \in 1..Len(pattern) : SameLetter(command[k + i], pattern[i])

ContainsEntryOf(command, patterns) ==
    \E i \in 1..Len(patterns) : ContainsIgnoringCase(command, patterns[i])

\* C16: in strict mode execute_command spawns a command only if it matches a
\* whitelist entry (nothing with an empty whitelist); in standard mode a
\* command matching a blacklist entry is not spawned.
C16_SpawnObeysSecurityMode ==
    cmdReq.kind = "execute" /\ cmdReq.spawned =>
        IF cm.config.securityMode = "strict"
        THEN ContainsEntryOf(cmdReq.command, cm.config.commandWhitelist)
        ELSE ~ContainsEntryOf(cmdReq.command, cm.config.commandBlacklist)

\* C17: isCommandAllowed returns true exactly when, in strict mode, the
\* command contains at least one whitelist entry, case disregarded (so never
\* with an empty whitelist), and in standard mode, when it contains no
\* blacklist entry, case disregarded.
C17_IsCommandAllowedMatchesMode ==
    cmdReq.kind = "check" =>
        (cmdReq.allowed <=>
            IF cm.config.securityMode = "strict"
            THEN ContainsEntryOf(cmdReq.command, cm.config.commandWhitelist)
            ELSE ~ContainsEntryOf(cmdReq.command, cm.config.commandBlacklist))

\* a command allowed in strict mode through an entry written in capitals
C17_Witness ==
    /\ cmdReq.kind = "check"
    /\ cm.config.securityMode = "strict"
    /\ cm.config.commandWhitelist = << << "R", "M" >> >>
    /\ cmdReq.command = << "m", "r", "m" >>
    /\ cmdReq.allowed

\* a command refused in standard mode through the blacklist
C17_WitnessStandard ==
    /\ cmdReq.kind = "check"
    /\ cm.config.securityMode = "standard"
    /\ cm.config.commandBlacklist = << << "r", "r" >>, << "M" >> >>
    /\ cmdReq.command = << "R", "m" >>
    /\ ~cmdReq.allowed

-----------------------------------------------------------------------------
(* Claims about list_processes *)

\* the limit in force: the argument, 50 when it is absent
LimitInForce ==
    IF procReq.limit.type = "number" THEN procReq.limit.value ELSE DEFAULT_LIMIT

\* C20: for every limit argument and every output of the enumeration command,
\* the number of processes returned is at most min(limit, 500) with limit
\* defaulting to 50, hence never above 500, and process_count is the length of
\* the list returned.
C20_ProcessListTruncated ==
    procReq.asked /\ procReq.outcome.kind = "returned"
                  /\ procReq.outcome.envelope.success =>
        /\ Len(procReq.outcome.envelope.processes) <= Min(LimitInForce, MAX_LIMIT)
        /\ Len(procReq.outcome.envelope.processes) <= MAX_LIMIT
        /\ procReq.outcome.envelope.process_count =
              Len(procReq.outcome.envelope.processes)

\* the part of C20 that holds for every limit of 0 or more, and for none
C20_TruncatedForLimitsFromZero ==
    LimitInForce >= 0 => C20_ProcessListTruncated

-----------------------------------------------------------------------------
(* Claims about argument validation *)

\* a value that is missing, empty or of the wrong type for the argument
BadValueFor(arg, v) ==
    IF arg = "pid" THEN v # "number" ELSE v # "string"

\* the invocation in hand lacks a required argument, or has an empty or a
\* wrongly typed one, or has no arguments object
LacksRequiredArgument ==
    /\ valReq.asked
    /\ \/ ~valReq.hasArgs
       \/ BadValueFor(RequiredArgs[valReq.tool][1], valReq.first)
       \/ /\ RequiredArgs[valReq.tool][2] # "none"
          /\ BadValueFor(RequiredArgs[valReq.tool][2], valReq.second)

\* C19: for every handler, an invocation whose required argument is missing,
\* empty or of the wrong type, or that carries no arguments object, is
\* rejected with an InvalidParams protocol error before any process is
\* spawned and before any filesystem call is made.
C19_BadArgumentsRejectedBeforeIo ==
    LacksRequiredArgument =>
        /\ valReq.answer = "protocol_error"
        /\ valReq.io = << >>

\* the same for the first required argument of a request that has an
\* arguments object
C19_FirstArgumentRejectedBeforeIo ==
    /\ valReq.asked
    /\ valReq.hasArgs
    /\ BadValueFor(RequiredArgs[valReq.tool][1], valReq.first)
    => /\ valReq.answer = "protocol_error"
       /\ valReq.io = << >>

-----------------------------------------------------------------------------
(* Claims about ConfigManager.reset *)

\* C27: after any sequence of set and update calls, with or without a user
\* configuration file at construction, reset() leaves get(k) equal to the
\* built-in default for every key k, and set, update and reset never change
\* the built-in defaults.
C27_ResetRestoresBuiltInDefaults ==
    [][/\ ConfigReset => \A k \in ConfigKeys : cm'.config[k] = Defaults[k]
       /\ cm'.defaults = Defaults]_vars

\* what reset() does achieve: the configuration is the defaults object as it
\* is at that moment
C27_ResetGivesCurrentDefaults ==
    [][ConfigReset => cm'.config = cm.defaults /\ cm'.defaults = cm.defaults]_vars

-----------------------------------------------------------------------------
(* Claims about the default timeout of each kind of tool *)

DefaultForKind(tool) ==
    IF tool = "execute_script" THEN TIMEOUT_SCRIPT ELSE DEFAULT_TIMEOUT

NoTimeoutValue(timeoutArg) ==
    timeoutArg.type # "number" \/ timeoutArg.value = 0

\* C25: the timeout handed to the spawn primitive is the tool's own default
\* (60000 for execute_script, 30000 for execute_command) when the caller
\* supplies no timeout value (absent, null or 0), and min(requested, 300000)
\* when a positive timeout is supplied.
C25_TimeoutDefaultPerKind ==
    optReq # NoOptReq =>
        /\ NoTimeoutValue(optReq.timeout) =>
              optReq.options.timeout = Min(DefaultForKind(optReq.tool), MAX_TIMEOUT)
        /\ (optReq.timeout.type = "number" /\ optReq.timeout.value > 0) =>
              optReq.options.timeout = Min(optReq.timeout.value, MAX_TIMEOUT)

\* what the code does: the tool's own default only for an absent timeout; null
\* and 0 get the common default of getExecOptions
C25_TimeoutDefaultForAbsentOnly ==
    optReq # NoOptReq =>
        /\ optReq.timeout = Undefined =>
              optReq.options.timeout = DefaultForKind(optReq.tool)
        /\ (optReq.timeout # Undefined /\ NoTimeoutValue(optReq.timeout)) =>
              optReq.options.timeout = DEFAULT_TIMEOUT
        /\ (optReq.timeout.type = "number" /\ optReq.timeout.value > 0) =>
              optReq.options.timeout = Min(optReq.timeout.value, MAX_TIMEOUT)

-----------------------------------------------------------------------------
(* Claims about the timeout flag of a failure envelope *)

\* finished invocations that were answered with a failure envelope
FailureEnvelope(i) ==
    /\ inv[i].pc = "done"
    /\ inv[i].outcome.kind = "returned"
    /\ inv[i].outcome.envelope.success = FALSE

HasTimeoutFlag(i) == "timeout" \in DOMAIN inv[i].outcome.envelope

\* exec()'s timer expired and the child died of the signal exec() sent
KilledByTimeout(i) ==
    /\ inv[i].why = "timeout"
    /\ inv[i].settled.error.signal = "SIGTERM"

-----------------------------------------------------------------------------
(* Claims about the temporary directory of execute_script *)

\* temporary directories whose invocation is still running
DirsInUse == { inv[i].tempDir : i \in { j \in Invocations : inv[j].pc = "running" } }

\* C30: once an execute_script invocation has completed, on whatever path, the
\* temporary directory it created is gone along with its script file, so the
\* only temporary directories that exist belong to invocations still running.
C30_TempDirRemovedOnCompletion ==
    /\ \A i \in Invocations :
          (inv[i].pc = "done" /\ inv[i].tool = "execute_script") =>
              /\ inv[i].tempDir \notin tmpDirs
              /\ inv[i].tempFile \notin scriptFiles
    /\ tmpDirs \subseteq DirsInUse

\* what the code does: every directory mkdtempSync created is still there
C30_TempDirsOnlyGrow ==
    [][tmpDirs \subseteq tmpDirs']_vars

\* execute_script invocations whose script file was written and whose child
\* has not been waited for to the end
ScriptInFlight(i) ==
    /\ inv[i].pc = "running"
    /\ inv[i].tool = "execute_script"

\* C29: for execute_script invocations in flight at the same time, under every
\* interleaving of their steps, each has its own temporary directory and its
\* own script file, and the file of an invocation that has not finished exists
\* whatever other invocations have cleaned up meanwhile.
C29_ScriptFilesAreDisjoint ==
    /\ \A i \in Invocations :
          ScriptInFlight(i) =>
              /\ inv[i].tempDir \in tmpDirs
              /\ inv[i].tempFile \in scriptFiles
    /\ \A i, j \in Invocations :
          (i # j /\ ScriptInFlight(i) /\ inv[j].tool = "execute_script"
                 /\ inv[j].tempDir # 0) =>
              /\ inv[i].tempDir # inv[j].tempDir
              /\ inv[i].tempFile # inv[j].tempFile

\* two scripts were in flight together; one has finished and removed its file
\* while the other is still running
C29_Witness ==
    \E i, j \in Invocations :
        /\ i # j
        /\ ScriptInFlight(i)
        /\ inv[j].pc = "done" /\ inv[j].tool = "execute_script"
        /\ inv[j].child = "closed"
        /\ inv[j].unlinkAttempted /\ ~inv[j].unlinkFailed
        /\ inv[j].tempDir > inv[i].tempDir

-----------------------------------------------------------------------------
(* More claims about the file and directory tools *)

\* C24: directory_operations exists answers every non-empty path with a
\* success envelope, whatever the filesystem holds, and its exists flag is
\* true exactly when the path exists and is a directory.
C24_ExistsAlwaysSucceeds ==
    DirectoryRequest("exists") /\ ~IsEmptyPath(fsReq.path) =>
        /\ Succeeded(fsReq.outcome)
        /\ fsReq.outcome.envelope.exists = IsDirectory(fsReq.before, RequestPath)
        /\ fs = fsReq.before

\* the same, for the paths the guard lets through
C24_ExistsAlwaysSucceedsPastGuard ==
    ~GuardThrows(ServerCwd, fsReq.path) => C24_ExistsAlwaysSucceeds

\* the request in hand is a file_operations copy or move
CopyOrMoveRequest ==
    /\ fsReq.tool = "file_operations"
    /\ fsReq.operation \in {"copy", "move"}

RequestDestination == Normalized(fsReq.destination)

\* copy and move with a destination that exists and without overwrite fail and
\* leave the whole filesystem as it was
RefusedWithoutOverwrite ==
    ( /\ CopyOrMoveRequest
      /\ ~IsEmptyPath(fsReq.path) /\ ~IsEmptyPath(fsReq.destination)
      /\ Exists(fsReq.before, RequestDestination)
      /\ ~fsReq.args.flag ) =>
        /\ Failed(fsReq.outcome)
        /\ fs = fsReq.before

\* the destination holds what the source held, and a moved source is gone
DestinationHoldsSource ==
    /\ Succeeded(fsReq.outcome)
    /\ fs[RequestDestination] = fsReq.before[RequestPath]
    /\ (fsReq.operation = "move") => ~Exists(fs, RequestPath)

\* an overwriting request whose source is a file and that met no failure of
\* the operating system
OverwritingValidSource ==
    /\ CopyOrMoveRequest
    /\ ~IsEmptyPath(fsReq.path) /\ ~IsEmptyPath(fsReq.destination)
    /\ fsReq.args.flag
    /\ fsReq.fault = "none"
    /\ IsFile(fsReq.before, RequestPath)

DestinationCannotTakeFile ==
    \/ IsDirectory(fsReq.before, RequestDestination)
    \/ IsFile(fsReq.before, Dirname(RequestDestination))

EntriesLieInDirectories ==
    \A n \in Nodes : Exists(fs, n) => \/ Dirname(n) \notin Nodes
                                      \/ IsDirectory(fs, Dirname(n))

\* the request in hand is a file_write that failed without a failure of the
\* operating system inside writeFileSync
FailedWrite ==
    /\ fsReq.tool = "file_write"
    /\ Failed(fsReq.outcome)
    /\ fsReq.fault = "none"

\* C28: a file_write that fails (missing parent directory without
\* create_directories, content over the cap, unsupported encoding, guard
\* rejection, no write permission) leaves the filesystem exactly as it was:
\* no target file, no backup file and no parent directory was created or
\* changed, whatever the backup and create_directories options.
C28_FailedWriteChangesNothing ==
    FailedWrite => fs = fsReq.before

\* what the code keeps: the target of a failed write is as it was, and
\* without the backup option so is every file; directories and the backup
\* copy made before the failure stay
C28_FailedWriteKeepsTarget ==
    (FailedWrite /\ ~IsEmptyPath(fsReq.path)) =>
        /\ fs[RequestPath] = fsReq.before[RequestPath]
        /\ \A n \in Nodes :
              fs[n] # fsReq.before[n] =>
                  \/ fsReq.args.flag /\ n = BackupPath(RequestPath)
                  \/ n = Dirname(RequestPath) /\ IsDirectory(fs, n)
                                              /\ ~Exists(fsReq.before, n)

-----------------------------------------------------------------------------
(* Claims about kill_process *)

\* the pid is a positive integer
PositiveInteger(pid) ==
    pid.type = "number" /\ pid.halves >= 2 /\ pid.halves % 2 = 0

\* the signal is absent or one of the names of the schema
SignalOfSchema(signalArg) == signalArg \in {"undefined"} \cup SchemaSignals

RejectedBeforeCommand ==
    /\ killReq.command = NoCommand
    /\ killReq.outcome.kind = "raised"
    /\ killReq.outcome.error.code = "InvalidParams"

\* C21: kill_process runs a termination command only when pid is a positive
\* integer and signal, when given, is one of SIGTERM, SIGKILL, SIGINT, SIGHUP,
\* SIGQUIT; for any other pid or signal it fails with an InvalidParams
\* protocol error before any command is run.
C21_KillValidatesPidAndSignal ==
    killReq.asked =>
        IF PositiveInteger(killReq.pid) /\ SignalOfSchema(killReq.signal)
        THEN killReq.command # NoCommand
        ELSE RejectedBeforeCommand

\* the check the code makes: a command is run exactly for a pid that is a
\* number of at least 1, whatever the signal
C21_KillValidatesPidAtLeastOne ==
    killReq.asked =>
        IF killReq.pid.type = "number" /\ killReq.pid.halves >= 2
        THEN killReq.command # NoCommand
        ELSE RejectedBeforeCommand

\* the signal a termination command uses; taskkill sends none, and is read
\* here in the way most favourable to the report: the forceful form as
\* SIGKILL, the plain form as SIGTERM
SignalUsed(command) ==
    IF command.program = "kill" THEN command.signal
    ELSE IF command.forceful THEN "SIGKILL" ELSE "SIGTERM"

\* C22: in every successful kill_process result the reported signal is the
\* signal the termination command used: off Windows SIGKILL under force and
\* otherwise the requested signal (SIGTERM when none is given); on Windows
\* force only selects between the plain and the forceful command.
C22_ReportedSignalIsUsed ==
    (killReq.asked /\ Succeeded(killReq.outcome)) =>
        /\ killReq.outcome.envelope.signal = SignalUsed(killReq.command)
        /\ IF killReq.windows
           THEN /\ killReq.command.program = "taskkill"
                /\ killReq.command.forceful = (killReq.force = "true")
           ELSE killReq.command.signal =
                    IF killReq.force = "true" THEN "SIGKILL"
                    ELSE IF killReq.signal = "undefined" THEN "SIGTERM"
                    ELSE killReq.signal

\* the same, with the report compared to the command off Windows only
C22_ReportedSignalIsUsedOffWindows ==
    (killReq.asked /\ Succeeded(killReq.outcome)) =>
        IF killReq.windows
        THEN /\ killReq.command.program = "taskkill"
             /\ killReq.command.forceful = (killReq.force = "true")
        ELSE /\ killReq.outcome.envelope.signal = killReq.command.signal
             /\ killReq.command.signal =
                    IF killReq.force = "true" THEN "SIGKILL"
                    ELSE IF killReq.signal = "undefined" THEN "SIGTERM"
                    ELSE killReq.signal

====
